---------------------------- MODULE Spec2Model ----------------------------
(***************************************************************************)
(* Verification model of the ShapescapeMC StorageAPI:                      *)
(*   PropertyStorage  (src/src/storage/property-storage.ts)                *)
(*   ExtendedStorage  (src/src/storage/extended-storage.ts)                *)
(*   MultiArray       (src/src/storage/multi-array.ts)                     *)
(*                                                                         *)
(* JavaScript strings are sequences of UTF-16 code units.  They are kept   *)
(* run-length encoded (a sequence of runs [c |-> code unit, n |-> count],  *)
(* adjacent runs carrying different code units), so that values around the *)
(* real 32767-byte ceiling of a dynamic property stay small terms.         *)
(***************************************************************************)
EXTENDS Integers, Sequences, FiniteSets, TLC

VARIABLES store, init, last, input, limit, chunks, cursor, cache

vars == <<store, init, last, input, limit, chunks, cursor, cache>>

-----------------------------------------------------------------------------
(* Code units used by the literals of the program and by the model inputs. *)
Chr == [quote |-> 34, comma |-> 44, minus |-> 45, dot |-> 46, zero |-> 48,
        nine |-> 57, colon |-> 58, lbracket |-> 91, backslash |-> 92,
        rbracket |-> 93, underscore |-> 95, S |-> 83,
        a |-> 97, b |-> 98, d |-> 100, e |-> 101, f |-> 102, g |-> 103, h |-> 104,
        i |-> 105, k |-> 107, l |-> 108, m |-> 109, n |-> 110, o |-> 111,
        p |-> 112, r |-> 114, s |-> 115, t |-> 116, u |-> 117, v |-> 118,
        x |-> 120, lbrace |-> 123, rbrace |-> 125,
        eacute |-> 233, euro |-> 8364, replacement |-> 65533]

Run(c, n) == [c |-> c, n |-> n]

EmptyStr == <<>>

(* s + t on strings *)
Cat(s, t) ==
    IF s = <<>> THEN t
    ELSE IF t = <<>> THEN s
    ELSE IF s[Len(s)].c = t[1].c
         THEN SubSeq(s, 1, Len(s) - 1)
                \o <<Run(t[1].c, s[Len(s)].n + t[1].n)>>
                \o SubSeq(t, 2, Len(t))
         ELSE s \o t

RECURSIVE Lit(_)
(* the string whose code units are the tuple cs *)
Lit(cs) == IF cs = <<>> THEN <<>> ELSE Cat(<<Run(cs[1], 1)>>, Lit(Tail(cs)))

(* the string made of n copies of code unit c *)
Repeat(c, n) == IF n = 0 THEN <<>> ELSE <<Run(c, n)>>

RECURSIVE StrLen(_)
(* s.length *)
StrLen(s) == IF s = <<>> THEN 0 ELSE s[1].n + StrLen(Tail(s))

RECURSIVE DropN(_, _)
(* s.slice(k) *)
DropN(s, k) ==
    IF k = 0 \/ s = <<>> THEN s
    ELSE IF s[1].n <= k THEN DropN(Tail(s), k - s[1].n)
    ELSE <<Run(s[1].c, s[1].n - k)>> \o Tail(s)

RECURSIVE TakeN(_, _)
(* s.slice(0, k) *)
TakeN(s, k) ==
    IF k = 0 \/ s = <<>> THEN <<>>
    ELSE IF s[1].n <= k THEN <<s[1]>> \o TakeN(Tail(s), k - s[1].n)
    ELSE <<Run(s[1].c, k)>>

(* s.startsWith(p) *)
StartsWith(s, p) == TakeN(s, StrLen(p)) = p

IsDigit(c) == c >= Chr.zero /\ c <= Chr.nine

RECURSIVE DigitsOf(_)
DigitsOf(n) ==
    IF n < 10 THEN <<Chr.zero + n>>
    ELSE DigitsOf(n \div 10) \o <<Chr.zero + (n % 10)>>

(* String(i) for an integer i, as in key + "." + i *)
NumToStr(i) == IF i < 0 THEN Lit(<<Chr.minus>> \o DigitsOf(-i)) ELSE Lit(DigitsOf(i))

-----------------------------------------------------------------------------
(* JavaScript values: a tag t and, where the type has one, a payload v.    *)
(* An object is its property list in enumeration order, an array its       *)
(* element list.                                                           *)
Undefined == [t |-> "undef"]
Null == [t |-> "null"]
Num(i) == [t |-> "num", v |-> i]
Bool(b) == [t |-> "bool", v |-> b]
Str(s) == [t |-> "str", v |-> s]
Arr(es) == [t |-> "arr", v |-> es]
Obj(ps) == [t |-> "obj", v |-> ps]
Prop(k, v) == [k |-> k, v |-> v]

(* ToBoolean: what `if (value)` and `!value` test *)
Truthy(v) ==
    CASE v.t = "undef" -> FALSE
      [] v.t = "null" -> FALSE
      [] v.t = "num" -> v.v # 0
      [] v.t = "bool" -> v.v
      [] v.t = "str" -> v.v # <<>>
      [] OTHER -> TRUE

RECURSIVE Expand(_)
(* the code units of a (short) string, one by one *)
Expand(s) ==
    IF s = <<>> THEN <<>>
    ELSE IF s[1].n = 1 THEN <<s[1].c>> \o Expand(Tail(s))
    ELSE <<s[1].c>> \o Expand(<<Run(s[1].c, s[1].n - 1)>> \o Tail(s))

RECURSIVE DigitsValue(_, _)
DigitsValue(cs, acc) ==
    IF cs = <<>> THEN acc
    ELSE DigitsValue(Tail(cs), acc * 10 + (cs[1] - Chr.zero))

(* a property name that is an array index: enumerated first, ascending *)
IsIndexKey(k) ==
    LET cs == Expand(k) IN
        /\ cs # <<>>
        /\ Len(cs) <= 9
        /\ \A j \in 1..Len(cs) : IsDigit(cs[j])
        /\ (Len(cs) > 1 => cs[1] # Chr.zero)

IndexKeyValue(k) == DigitsValue(Expand(k), 0)

(* value[name], undefined when value has no such own property *)
GetProp(v, name) ==
    IF v.t # "obj" THEN Undefined
    ELSE IF \E j \in 1..Len(v.v) : v.v[j].k = name
         THEN v.v[CHOOSE j \in 1..Len(v.v) : v.v[j].k = name].v
         ELSE Undefined

HasProp(v, name) == v.t = "obj" /\ \E j \in 1..Len(v.v) : v.v[j].k = name

(* value[name] = x on an object: an existing property keeps its place, a   *)
(* new index key goes among the index keys in ascending order, any other   *)
(* new key goes last                                                       *)
SetProp(o, name, x) ==
    LET ps == o.v IN
    IF \E j \in 1..Len(ps) : ps[j].k = name
    THEN Obj([j \in 1..Len(ps) |-> IF ps[j].k = name THEN Prop(name, x) ELSE ps[j]])
    ELSE IF IsIndexKey(name)
         THEN LET before == {j \in 1..Len(ps) :
                                /\ IsIndexKey(ps[j].k)
                                /\ IndexKeyValue(ps[j].k) < IndexKeyValue(name)}
                  cut == Cardinality(before)
              IN Obj(SubSeq(ps, 1, cut) \o <<Prop(name, x)>> \o SubSeq(ps, cut + 1, Len(ps)))
         ELSE Obj(Append(ps, Prop(name, x)))

(* delete value[name] *)

RECURSIVE Quote(_)
(* the body of a JSON string literal: quote and backslash are escaped *)
Quote(s) ==
    IF s = <<>> THEN <<>>
    ELSE IF s[1].c \in {Chr.quote, Chr.backslash}
         THEN Cat(Lit(<<Chr.backslash, s[1].c>>), Quote(DropN(s, 1)))
         ELSE Cat(<<s[1]>>, Quote(Tail(s)))

RECURSIVE StringifyVal(_), StringifyElems(_), StringifyProps(_, _)
(* JSON.stringify(v) for a value that has a JSON text *)
StringifyVal(v) ==
    CASE v.t = "num" -> NumToStr(v.v)
      [] v.t = "bool" -> IF v.v THEN Lit(<<Chr.t, Chr.r, Chr.u, Chr.e>>)
                         ELSE Lit(<<Chr.f, Chr.a, Chr.l, Chr.s, Chr.e>>)
      [] v.t = "str" -> Cat(Lit(<<Chr.quote>>), Cat(Quote(v.v), Lit(<<Chr.quote>>)))
      [] v.t = "arr" -> Cat(Lit(<<Chr.lbracket>>),
                            Cat(StringifyElems(v.v), Lit(<<Chr.rbracket>>)))
      [] v.t = "obj" -> Cat(Lit(<<Chr.lbrace>>),
                            Cat(StringifyProps(v.v, TRUE), Lit(<<Chr.rbrace>>)))
      [] OTHER -> Lit(<<Chr.n, Chr.u, Chr.l, Chr.l>>)

(* array elements: undefined is written as null *)
StringifyElems(es) ==
    IF es = <<>> THEN <<>>
    ELSE Cat(StringifyVal(es[1]),
             IF Len(es) = 1 THEN <<>>
             ELSE Cat(Lit(<<Chr.comma>>), StringifyElems(Tail(es))))

(* object properties: a property holding undefined is left out *)
StringifyProps(ps, first) ==
    IF ps = <<>> THEN <<>>
    ELSE IF ps[1].v.t = "undef" THEN StringifyProps(Tail(ps), first)
    ELSE Cat(IF first THEN <<>> ELSE Lit(<<Chr.comma>>),
             Cat(StringifyVal(Str(ps[1].k)),
                 Cat(Lit(<<Chr.colon>>),
                     Cat(StringifyVal(ps[1].v), StringifyProps(Tail(ps), FALSE)))))

(* JSON.stringify(data): a JavaScript string, or undefined for undefined *)
JsonStringify(data) == IF data.t = "undef" THEN Undefined ELSE Str(StringifyVal(data))

-----------------------------------------------------------------------------
(* JSON.parse, as a recursive-descent parser of JSON texts made of         *)
(* integers, true, false, null, strings (escaped quote and backslash),     *)
(* arrays and objects.  A parse result is [ok, v, rest].                   *)
ParseFail == [ok |-> FALSE, v |-> Undefined, rest |-> <<>>]
ParseOk(v, rest) == [ok |-> TRUE, v |-> v, rest |-> rest]

IsWs(c) == c \in {9, 10, 13, 32}

RECURSIVE SkipWs(_)
SkipWs(s) == IF s # <<>> /\ IsWs(s[1].c) THEN SkipWs(Tail(s)) ELSE s

RECURSIVE ScanString(_, _)
(* the rest of a string literal, after its opening quote *)
ScanString(s, acc) ==
    IF s = <<>> THEN ParseFail
    ELSE IF s[1].c = Chr.quote THEN ParseOk(Str(acc), DropN(s, 1))
    ELSE IF s[1].c = Chr.backslash
         THEN LET s2 == DropN(s, 1) IN
              IF s2 # <<>> /\ s2[1].c \in {Chr.quote, Chr.backslash}
              THEN ScanString(DropN(s2, 1), Cat(acc, <<Run(s2[1].c, 1)>>))
              ELSE ParseFail
    ELSE IF s[1].c < 32 THEN ParseFail
    ELSE ScanString(Tail(s), Cat(acc, <<s[1]>>))

RECURSIVE ScanDigits(_, _)
ScanDigits(s, acc) ==
    IF s # <<>> /\ IsDigit(s[1].c)
    THEN ScanDigits(DropN(s, 1), acc * 10 + (s[1].c - Chr.zero))
    ELSE ParseOk(Num(acc), s)

(* a JSON number: an optional minus sign, then 0 or a nonzero digit and   *)
(* further digits; no fraction and no exponent                             *)
ParseNumber(s) ==
    LET neg == s[1].c = Chr.minus
        s1 == IF neg THEN DropN(s, 1) ELSE s
        r == IF s1 = <<>> \/ ~IsDigit(s1[1].c) THEN ParseFail
             ELSE IF s1[1].c = Chr.zero THEN ParseOk(Num(0), DropN(s1, 1))
             ELSE ScanDigits(s1, 0)
    IN IF ~r.ok THEN ParseFail
       ELSE IF r.rest # <<>> /\ r.rest[1].c \in {Chr.dot, Chr.e, 69} THEN ParseFail
       ELSE ParseOk(Num(IF neg THEN 0 - r.v.v ELSE r.v.v), r.rest)

(* the value parsed and the white space after it skipped *)
TrailingWs(r) == IF r.ok THEN ParseOk(r.v, SkipWs(r.rest)) ELSE ParseFail

RECURSIVE ParseValue(_), ParseElems(_, _), ParseMembers(_, _)
(* the value that starts at the first code unit of s *)
ParseValueAt(s) ==
    IF s = <<>> THEN ParseFail
    ELSE LET c == s[1].c IN
         TrailingWs(CASE c = Chr.quote -> ScanString(DropN(s, 1), <<>>)
                      [] c = Chr.lbracket ->
                           LET s1 == SkipWs(DropN(s, 1)) IN
                           IF s1 # <<>> /\ s1[1].c = Chr.rbracket
                           THEN ParseOk(Arr(<<>>), DropN(s1, 1))
                           ELSE ParseElems(s1, <<>>)
                      [] c = Chr.lbrace ->
                           LET s1 == SkipWs(DropN(s, 1)) IN
                           IF s1 # <<>> /\ s1[1].c = Chr.rbrace
                           THEN ParseOk(Obj(<<>>), DropN(s1, 1))
                           ELSE ParseMembers(s1, Obj(<<>>))
                      [] c = Chr.minus \/ IsDigit(c) -> ParseNumber(s)
                      [] StartsWith(s, Lit(<<Chr.t, Chr.r, Chr.u, Chr.e>>)) ->
                           ParseOk(Bool(TRUE), DropN(s, 4))
                      [] StartsWith(s, Lit(<<Chr.f, Chr.a, Chr.l, Chr.s, Chr.e>>)) ->
                           ParseOk(Bool(FALSE), DropN(s, 5))
                      [] StartsWith(s, Lit(<<Chr.n, Chr.u, Chr.l, Chr.l>>)) ->
                           ParseOk(Null, DropN(s, 4))
                      [] OTHER -> ParseFail)

ParseValue(s0) == ParseValueAt(SkipWs(s0))

(* after the element r of an array: a comma and more, or the bracket *)
ElemsAfter(acc, r) ==
    IF ~r.ok \/ r.rest = <<>> THEN ParseFail
    ELSE IF r.rest[1].c = Chr.comma THEN ParseElems(DropN(r.rest, 1), Append(acc, r.v))
    ELSE IF r.rest[1].c = Chr.rbracket
         THEN ParseOk(Arr(Append(acc, r.v)), DropN(r.rest, 1))
    ELSE ParseFail

ParseElems(s, acc) == ElemsAfter(acc, ParseValue(s))

(* after the value r of the member named k: a comma and more, or the brace *)
MembersAfterValue(o, k, r) ==
    IF ~r.ok \/ r.rest = <<>> THEN ParseFail
    ELSE IF r.rest[1].c = Chr.comma
         THEN ParseMembers(DropN(r.rest, 1), SetProp(o, k.v.v, r.v))
    ELSE IF r.rest[1].c = Chr.rbrace
         THEN ParseOk(SetProp(o, k.v.v, r.v), DropN(r.rest, 1))
    ELSE ParseFail

(* after the name k of a member: the colon and the member's value *)
MembersAfterKey(o, k) ==
    LET s1 == SkipWs(k.rest) IN
    IF ~k.ok \/ s1 = <<>> \/ s1[1].c # Chr.colon THEN ParseFail
    ELSE MembersAfterValue(o, k, ParseValue(DropN(s1, 1)))

ParseMembersAt(s, o) ==
    IF s = <<>> \/ s[1].c # Chr.quote THEN ParseFail
    ELSE MembersAfterKey(o, ScanString(DropN(s, 1), <<>>))

ParseMembers(s0, o) == ParseMembersAt(SkipWs(s0), o)

(* a parse that leaves text behind is a SyntaxError *)
WholeText(r) == IF r.ok /\ r.rest = <<>> THEN r ELSE ParseFail

(* JSON.parse(data): ok is FALSE where JSON.parse throws a SyntaxError *)
JsonParse(data) == WholeText(ParseValue(data))

-----------------------------------------------------------------------------
(* PropertyStorage: the byte ceiling of one dynamic property, the          *)
(* serializer and the byte encoder.                                        *)
MAX_BYTE_SIZE == 32 * 1024 - 1

(* serialize(data, options), without replacer and space *)
Serialize(data) == IF data.t # "str" THEN JsonStringify(data) ELSE data

(* try { return JSON.parse(data) } catch (ignored) { return data } *)
ParsedOrRaw(r, data) == IF r.ok THEN r.v ELSE Str(data)

(* deserialize(data, options), without reviver: the parsed value, or the   *)
(* string itself when JSON.parse throws                                    *)
Deserialize(data) == ParsedOrRaw(JsonParse(data), data)

RECURSIVE TruncateUnits(_)
(* arr[i] = split[i].charCodeAt(0) on a Uint8Array: the code unit modulo 256 *)
TruncateUnits(s) ==
    IF s = <<>> THEN <<>>
    ELSE Cat(<<Run(s[1].c % 256, s[1].n)>>, TruncateUnits(Tail(s)))

(* encodeValue(value): decodeURIComponent(encodeURIComponent(value)) is    *)
(* value itself, and every code unit becomes one array element             *)
EncodeValue(value) == TruncateUnits(value)

(* the UTF-16 code units of a decoded code point *)
CodePoint(cp) ==
    IF cp < 65536 THEN <<Run(cp, 1)>>
    ELSE <<Run(55296 + ((cp - 65536) \div 1024), 1), Run(56320 + ((cp - 65536) % 1024), 1)>>

RECURSIVE Utf8Decode(_, _, _, _, _, _)
(* the UTF-8 decoder of TextDecoder (not fatal): need and seen count the   *)
(* continuation bytes of the sequence being read, cp is its code point so  *)
(* far, lo..hi the range allowed for the next byte                         *)
Utf8Decode(bs, need, seen, cp, lo, hi) ==
    IF bs = <<>> THEN (IF need # 0 THEN <<Run(Chr.replacement, 1)>> ELSE <<>>)
    ELSE LET b == bs[1].c
             rest == DropN(bs, 1)
         IN IF need = 0
            THEN CASE b <= 127 -> Cat(<<bs[1]>>, Utf8Decode(Tail(bs), 0, 0, 0, 128, 191))
                   [] b >= 194 /\ b <= 223 -> Utf8Decode(rest, 1, 0, b - 192, 128, 191)
                   [] b >= 224 /\ b <= 239 ->
                        Utf8Decode(rest, 2, 0, b - 224,
                                   IF b = 224 THEN 160 ELSE 128, IF b = 237 THEN 159 ELSE 191)
                   [] b >= 240 /\ b <= 244 ->
                        Utf8Decode(rest, 3, 0, b - 240,
                                   IF b = 240 THEN 144 ELSE 128, IF b = 244 THEN 143 ELSE 191)
                   [] OTHER -> Cat(<<Run(Chr.replacement, bs[1].n)>>,
                                   Utf8Decode(Tail(bs), 0, 0, 0, 128, 191))
            ELSE IF b < lo \/ b > hi
                 THEN Cat(<<Run(Chr.replacement, 1)>>, Utf8Decode(bs, 0, 0, 0, 128, 191))
                 ELSE IF seen + 1 = need
                      THEN Cat(CodePoint(cp * 64 + (b - 128)),
                               Utf8Decode(rest, 0, 0, 0, 128, 191))
                      ELSE Utf8Decode(rest, need, seen + 1, cp * 64 + (b - 128), 128, 191)

(* new TextDecoder().decode(chunk): UTF-8, a leading byte order mark dropped *)
TextDecode(bs) ==
    Utf8Decode(IF StartsWith(bs, Lit(<<239, 187, 191>>)) THEN DropN(bs, 3) ELSE bs,
               0, 0, 0, 128, 191)

(* encodedInput.subarray(from, to) *)
SubArray(bs, from, to) == TakeN(DropN(bs, from), to - from)

Min(a, b) == IF a <= b THEN a ELSE b

RECURSIVE SplitLoop(_, _, _)
(* the while loop of splitValueIntoChunks, from the given offset *)
SplitLoop(encodedInput, offset, chunkSize) ==
    IF offset < StrLen(encodedInput)
    THEN LET size == Min(chunkSize, StrLen(encodedInput) - offset)
             chunk == SubArray(encodedInput, offset, offset + size)
         IN <<TextDecode(chunk)>> \o SplitLoop(encodedInput, offset + size, chunkSize)
    ELSE <<>>

(* splitValueIntoChunks(input, chunkSize) *)
SplitValueIntoChunks(inp, chunkSize) == SplitLoop(EncodeValue(inp), 0, chunkSize)

-----------------------------------------------------------------------------
(* The dynamic property backend (interface DynamicStorage): a map from     *)
(* property identifiers to scalar values.                                  *)
GetDynamicProperty(st, key) == IF key \in DOMAIN st THEN st[key] ELSE Undefined

(* setDynamicProperty(identifier, value): an undefined value deletes *)
SetDynamicProperty(st, key, value) ==
    IF value.t = "undef"
    THEN [k \in DOMAIN st \ {key} |-> st[k]]
    ELSE [k \in DOMAIN st \cup {key} |-> IF k = key THEN value ELSE st[k]]

GetDynamicPropertyIds(st) == DOMAIN st

(* PropertyStorage.set(key, value) of a storage with the given prefix *)
PSSet(st, prefix, key, value) ==
    SetDynamicProperty(st, Cat(prefix, key), Serialize(value))

(* PropertyStorage.drop(key) *)
PSDrop(st, prefix, key) == SetDynamicProperty(st, Cat(prefix, key), Undefined)

(* what get returns for the property value read from the backend *)
FromProperty(value, deserialize, defaultValue) ==
    IF value.t = "undef" THEN defaultValue
    ELSE IF value.t = "str" /\ deserialize THEN Deserialize(value.v)
    ELSE value

(* PropertyStorage.get(key, deserialize, defaultValue) *)
PSGet(st, prefix, key, deserialize, defaultValue) ==
    FromProperty(GetDynamicProperty(st, Cat(prefix, key)), deserialize, defaultValue)

-----------------------------------------------------------------------------
(* PropertyStorage: the JSON-array deque, clear, getAll and the            *)
(* sub-storages.  A method of a storage with the given prefix is an        *)
(* operator from the backend map to an outcome [st, ret, exc].             *)
POutcome(st, ret, exc) == [st |-> st, ret |-> ret, exc |-> exc]
PReturns(st, ret) == POutcome(st, ret, "none")
PThrows(st, exc) == POutcome(st, Undefined, exc)

(* assertArray(key, init), on the property that this.get(key) answered *)
AssertArrayOf(st, prefix, key, initKey, property) ==
    IF ~Truthy(property)
    THEN PReturns(IF initKey THEN PSSet(st, prefix, key, Arr(<<>>)) ELSE st, Arr(<<>>))
    ELSE IF property.t # "arr" THEN PThrows(st, "TypeError")
    ELSE PReturns(st, property)

(* assertArray(key, init) *)
AssertArray(st, prefix, key, initKey) ==
    AssertArrayOf(st, prefix, key, initKey, PSGet(st, prefix, key, TRUE, Undefined))

(* property.push(value); this.set(key, property) *)
PushBack(a, prefix, key, value) ==
    IF a.exc # "none" THEN a
    ELSE PReturns(PSSet(a.st, prefix, key, Arr(Append(a.ret.v, value))), Undefined)

(* PropertyStorage.rPush(key, value) *)
PSRPush(st, prefix, key, value) == PushBack(AssertArray(st, prefix, key, TRUE), prefix, key, value)

(* property.unshift(value); this.set(key, property) *)
PushFront(a, prefix, key, value) ==
    IF a.exc # "none" THEN a
    ELSE PReturns(PSSet(a.st, prefix, key, Arr(<<value>> \o a.ret.v)), Undefined)

(* PropertyStorage.lPush(key, value) *)
PSLPush(st, prefix, key, value) == PushFront(AssertArray(st, prefix, key, TRUE), prefix, key, value)

(* const value = property.pop(); this.set(key, property); return value *)
PopBack(a, prefix, key) ==
    IF a.exc # "none" THEN a
    ELSE IF a.ret.v = <<>> THEN PReturns(PSSet(a.st, prefix, key, a.ret), Undefined)
    ELSE PReturns(PSSet(a.st, prefix, key, Arr(SubSeq(a.ret.v, 1, Len(a.ret.v) - 1))),
                  a.ret.v[Len(a.ret.v)])

(* PropertyStorage.rPop(key) *)
PSRPop(st, prefix, key) == PopBack(AssertArray(st, prefix, key, FALSE), prefix, key)

(* const value = property.shift(); this.set(key, property); return value *)
PopFront(a, prefix, key) ==
    IF a.exc # "none" THEN a
    ELSE IF a.ret.v = <<>> THEN PReturns(PSSet(a.st, prefix, key, a.ret), Undefined)
    ELSE PReturns(PSSet(a.st, prefix, key, Arr(Tail(a.ret.v))), a.ret.v[1])

(* PropertyStorage.lPop(key) *)
PSLPop(st, prefix, key) == PopFront(AssertArray(st, prefix, key, FALSE), prefix, key)

(* one entry { [key]: value } of the array getAll returns *)
Entry(key, value) == [k |-> key, v |-> value]

(* getAll(pattern, deserialize): the entries pushed, as a set; the value   *)
(* is read with the key from which the prefix is already sliced            *)
GetAll(st, prefix, pattern, deserialize) ==
    {Entry(DropN(key, StrLen(prefix)),
           FromProperty(GetDynamicProperty(st, DropN(key, StrLen(prefix))),
                        deserialize, Undefined)) :
         key \in {id \in GetDynamicPropertyIds(st) :
                      StartsWith(id, IF Truthy(pattern) THEN Cat(prefix, pattern.v) ELSE prefix)}}

(* searchKeys(pattern) *)
SearchKeys(st, prefix, pattern) ==
    {DropN(key, StrLen(prefix)) :
         key \in {id \in GetDynamicPropertyIds(st) :
                      ~Truthy(pattern) \/ StartsWith(id, Cat(prefix, pattern.v))}}

SubStoragesName ==
    Lit(<<Chr.s, Chr.u, Chr.b, Chr.S, Chr.t, Chr.o, Chr.r, Chr.a, Chr.g, Chr.e, Chr.s>>)

UnderscoreStr == Lit(<<Chr.underscore>>)

(* getSubStoragePrefix(prefix) of a storage with prefix own *)
GetSubStoragePrefix(own, prefix) == Cat(own, Cat(UnderscoreStr, Cat(prefix, UnderscoreStr)))

(* String.prototype.includes on code units *)
IncludesUnits(a, b) == \E i \in 0..(Len(a) - Len(b)) : SubSeq(a, i + 1, i + Len(b)) = b

(* subStorages.includes(key): an element of an array, a substring of a string *)
Includes(subStorages, key) ==
    IF subStorages.t = "arr" THEN \E j \in 1..Len(subStorages.v) : subStorages.v[j] = Str(key)
    ELSE IncludesUnits(Expand(subStorages.v), Expand(key))

(* registerSubStorage(prefix), on the registry that this.get answered *)
RegisterIn(st, own, prefix, subStorages) ==
    IF subStorages.t \notin {"arr", "str"} THEN PThrows(st, "TypeError")
    ELSE IF Includes(subStorages, prefix) THEN PReturns(st, Undefined)
    ELSE IF subStorages.t = "str" THEN PThrows(st, "TypeError")
    ELSE PReturns(PSSet(st, own, SubStoragesName, Arr(Append(subStorages.v, Str(prefix)))),
                  Undefined)

(* registerSubStorage(prefix) of a storage with prefix own *)
RegisterSubStorage(st, own, prefix) ==
    RegisterIn(st, own, prefix, PSGet(st, own, SubStoragesName, TRUE, Arr(<<>>)))

(* getSubStorage(prefix): the registration; the storage returned has the   *)
(* prefix getSubStoragePrefix(prefix)                                      *)
GetSubStorage(st, own, prefix) == RegisterSubStorage(st, own, prefix)

(* the for loop of clear over the keys of the backend: a key that starts   *)
(* with effectivePattern is deleted unless subStorages.includes(key)       *)
ClearKeys(st, effectivePattern, subStorages) ==
    [key \in {id \in GetDynamicPropertyIds(st) :
                  ~StartsWith(id, effectivePattern) \/ Includes(subStorages, id)} |-> st[key]]

(* clear(undefined, false) of the sub-storage with prefix own *)
ClearOwn(st, own) == ClearKeys(st, own, PSGet(st, own, SubStoragesName, FALSE, Arr(<<>>)))

(* what `for (const sub of subStorages)` iterates: the elements of an      *)
(* array, the characters of a string                                       *)
SubsOf(subStorages) ==
    IF subStorages.t = "arr" THEN [j \in 1..Len(subStorages.v) |-> subStorages.v[j].v]
    ELSE [j \in 1..Len(Expand(subStorages.v)) |-> Lit(<<Expand(subStorages.v)[j]>>)]

(* subStore.clear(undefined, false), once getSubStorage(sub) has answered *)
ClearSub(got, own, sub) ==
    IF got.exc # "none" THEN got
    ELSE PReturns(ClearOwn(got.st, GetSubStoragePrefix(own, sub)), Undefined)

RECURSIVE ClearSubs(_, _, _)
(* the loop of clear over the sub-storages: this.getSubStorage(sub), then  *)
(* subStore.clear(undefined, false), for the outcome o so far              *)
ClearSubs(o, own, subs) ==
    IF subs = <<>> \/ o.exc # "none" THEN o
    ELSE ClearSubs(ClearSub(GetSubStorage(o.st, own, subs[1]), own, subs[1]), own, Tail(subs))

(* clear, with the registry subStorages that this.get answered *)
ClearWith(st, own, pattern, includeSubStorages, subStorages) ==
    IF includeSubStorages
    THEN ClearSubs(PReturns(ClearKeys(st, IF Truthy(pattern) THEN Cat(own, pattern.v) ELSE own,
                                      subStorages), Undefined),
                   own, SubsOf(subStorages))
    ELSE PReturns(ClearKeys(st, IF Truthy(pattern) THEN Cat(own, pattern.v) ELSE own,
                            subStorages), Undefined)

(* PropertyStorage.clear(pattern, includeSubStorages) *)
Clear(st, own, pattern, includeSubStorages) ==
    ClearWith(st, own, pattern, includeSubStorages,
              PSGet(st, own, SubStoragesName, FALSE, Arr(<<>>)))

-----------------------------------------------------------------------------
(* CachedStorage: a PropertyStorage with a private map from full keys to   *)
(* serialized values.  A method is an operator from the backend and the    *)
(* map to an outcome [st, cache, ret, exc].                                *)
COutcome(st, c, ret, exc) == [st |-> st, cache |-> c, ret |-> ret, exc |-> exc]

(* Map.prototype.get / set / delete *)
MapGet(c, key) == IF key \in DOMAIN c THEN c[key] ELSE Undefined
MapSet(c, key, value) == [k \in DOMAIN c \cup {key} |-> IF k = key THEN value ELSE c[k]]
MapDelete(c, key) == [k \in DOMAIN c \ {key} |-> c[k]]

(* CachedStorage.set(key, value) *)
CachedSet(st, c, prefix, key, value) ==
    COutcome(SetDynamicProperty(st, Cat(prefix, key), Serialize(value)),
             MapSet(c, Cat(prefix, key), Serialize(value)), Undefined, "none")

(* CachedStorage.remove(key) *)
CachedRemove(st, c, prefix, key) ==
    COutcome(SetDynamicProperty(st, Cat(prefix, key), Undefined),
             MapDelete(c, Cat(prefix, key)), Undefined, "none")

(* drop(key), inherited from PropertyStorage: the map is not touched *)
CachedDrop(st, c, prefix, key) == COutcome(PSDrop(st, prefix, key), c, Undefined, "none")

(* let value = this.cache.get(key); if (value === undefined) value = ... *)
CachedValue(st, c, key) ==
    IF MapGet(c, key).t # "undef" THEN MapGet(c, key) ELSE GetDynamicProperty(st, key)

(* CachedStorage.get(key, deserialize, defaultValue) *)
CachedGet(st, c, prefix, key, deserialize, defaultValue) ==
    FromProperty(CachedValue(st, c, Cat(prefix, key)), deserialize, defaultValue)

(* registerSubStorage(prefix) of a CachedStorage, on the registry that     *)
(* this.get answered: this.set writes the backend and the map              *)
CachedRegisterIn(st, c, own, prefix, subStorages) ==
    IF subStorages.t \notin {"arr", "str"} THEN COutcome(st, c, Undefined, "TypeError")
    ELSE IF Includes(subStorages, prefix) THEN COutcome(st, c, Undefined, "none")
    ELSE IF subStorages.t = "str" THEN COutcome(st, c, Undefined, "TypeError")
    ELSE CachedSet(st, c, own, SubStoragesName, Arr(Append(subStorages.v, Str(prefix))))

(* CachedStorage.getSubStorage(prefix): the registration; the storage      *)
(* returned is a new CachedStorage with an empty map                       *)
CachedGetSubStorage(st, c, own, prefix) ==
    CachedRegisterIn(st, c, own, prefix, CachedGet(st, c, own, SubStoragesName, TRUE, Arr(<<>>)))

(* subStore.clear(undefined, false) on the new CachedStorage, once         *)
(* getSubStorage(sub) has answered                                         *)
CachedClearSub(got, own, sub) ==
    IF got.exc # "none" THEN got
    ELSE COutcome(ClearOwn(got.st, GetSubStoragePrefix(own, sub)), got.cache, Undefined, "none")

RECURSIVE CachedClearSubs(_, _, _)
(* the loop of super.clear over the sub-storages of a CachedStorage *)
CachedClearSubs(o, own, subs) ==
    IF subs = <<>> \/ o.exc # "none" THEN o
    ELSE CachedClearSubs(CachedClearSub(CachedGetSubStorage(o.st, o.cache, own, subs[1]),
                                        own, subs[1]),
                         own, Tail(subs))

(* super.clear(pattern, includeSubStorages), with the registry that        *)
(* this.get answered                                                       *)
SuperClear(st, c, own, effectivePattern, includeSubStorages, subStorages) ==
    IF includeSubStorages
    THEN CachedClearSubs(COutcome(ClearKeys(st, effectivePattern, subStorages), c,
                                  Undefined, "none"),
                         own, SubsOf(subStorages))
    ELSE COutcome(ClearKeys(st, effectivePattern, subStorages), c, Undefined, "none")

(* for (const key of this.cache.keys()) if (key.startsWith(effectivePattern)) ... *)
CacheCleared(o, effectivePattern) ==
    IF o.exc # "none" THEN o
    ELSE COutcome(o.st,
                  [k \in {id \in DOMAIN o.cache : ~StartsWith(id, effectivePattern)} |-> o.cache[k]],
                  Undefined, "none")

(* CachedStorage.clear(pattern, includeSubStorages) *)
CachedClear(st, c, own, pattern, includeSubStorages) ==
    CacheCleared(SuperClear(st, c, own, IF Truthy(pattern) THEN Cat(own, pattern.v) ELSE own,
                            includeSubStorages,
                            CachedGet(st, c, own, SubStoragesName, FALSE, Arr(<<>>))),
                 IF Truthy(pattern) THEN Cat(own, pattern.v) ELSE own)

-----------------------------------------------------------------------------
(* ExtendedStorage.  The modelled instance is new ExtendedStorage(world):  *)
(* its prefix is the empty string.  A method is an operator from the       *)
(* backend map (and the instance's init flag) to an outcome                *)
(* [st, ini, ret, exc]: the backend and flag it leaves, the value it       *)
(* returns, and the exception it throws ("none" when it returns).          *)
Prefix == EmptyStr

IndexSuffix == Lit(<<Chr.dot, Chr.i, Chr.n, Chr.d, Chr.e, Chr.x>>)
ArInfix == Lit(<<Chr.dot, Chr.a, Chr.r, Chr.dot>>)
DotStr == Lit(<<Chr.dot>>)
MaxName == Lit(<<Chr.m, Chr.a, Chr.x>>)
StartName == Lit(<<Chr.s, Chr.t, Chr.a, Chr.r, Chr.t>>)
EndName == Lit(<<Chr.e, Chr.n, Chr.d>>)
PrevName == Lit(<<Chr.p, Chr.r, Chr.e, Chr.v>>)
NextName == Lit(<<Chr.n, Chr.e, Chr.x, Chr.t>>)
MarkerKey ==
    Lit(<<Chr.s, Chr.h, Chr.a, Chr.p, Chr.e, Chr.underscore,
          Chr.e, Chr.x, Chr.t, Chr.e, Chr.n, Chr.d, Chr.e, Chr.d, Chr.underscore,
          Chr.s, Chr.t, Chr.o, Chr.r, Chr.a, Chr.g, Chr.e>>)

(* key + "." + i  and  key + ".ar." + i *)
ChunkKey(key, i) == Cat(key, Cat(DotStr, NumToStr(i)))
SlotKey(key, i) == Cat(key, Cat(ArInfix, NumToStr(i)))

Outcome(st, ini, ret, exc) == [st |-> st, ini |-> ini, ret |-> ret, exc |-> exc]
Returns(st, ini, ret) == Outcome(st, ini, ret, "none")
Throws(st, ini, exc) == Outcome(st, ini, Undefined, exc)

(* /\.\d+$/.test(key) *)
HasNumericSuffix(key) ==
    LET cs == Expand(key) IN
    \E j \in 1..(Len(cs) - 1) :
        /\ cs[j] = Chr.dot
        /\ \A q \in (j + 1)..Len(cs) : IsDigit(cs[q])

(* initStorage() *)
InitStorage(st) == PSSet(st, Prefix, MarkerKey, Bool(TRUE))

(* if (!this.init) this.initStorage(), after a header write left st1 *)
EnsureInit(st1, ini) == Returns(IF ~ini THEN InitStorage(st1) ELSE st1, TRUE, Undefined)

(* setIndex(key, index) *)
SetIndex(st, ini, key, index) ==
    EnsureInit(PSSet(st, Prefix, Cat(key, IndexSuffix), index), ini)

(* the meta record read, when it is set and has the field that marks its shape *)
CheckedMeta(st, ini, value, field) ==
    IF Truthy(value)
    THEN IF ~Truthy(GetProp(value, field)) THEN Throws(st, ini, "TypeError")
         ELSE Returns(st, ini, value)
    ELSE Returns(st, ini, Undefined)

(* getIndex(key) *)
GetIndex(st, ini, key) ==
    CheckedMeta(st, ini, PSGet(st, Prefix, Cat(key, IndexSuffix), TRUE, Undefined), MaxName)

(* setArrayIndex(key, index) *)
SetArrayIndex(st, ini, key, index) == EnsureInit(PSSet(st, Prefix, key, index), ini)

(* a getArrayIndex that returns whatever the meta key holds, unchecked *)
GetArrayIndexUnchecked(st, ini, key) ==
    LET value == PSGet(st, Prefix, Cat(key, IndexSuffix), TRUE, Undefined) IN
    IF Truthy(value) THEN Returns(st, ini, value) ELSE Returns(st, ini, Undefined)

(* getArrayIndex(key) *)
GetArrayIndex(st, ini, key) ==
    CheckedMeta(st, ini, PSGet(st, Prefix, Cat(key, IndexSuffix), TRUE, Undefined), StartName)

(* !index || index.end === index.start *)
EmptyIndex(st, ini, index) ==
    IF index.exc # "none" THEN index
    ELSE Returns(st, ini, Bool(~Truthy(index.ret)
                               \/ GetProp(index.ret, EndName) = GetProp(index.ret, StartName)))

(* isArrayEmpty(key) *)
IsArrayEmpty(st, ini, key) == EmptyIndex(st, ini, GetArrayIndex(st, ini, key))

(* !this.isArrayEmpty(key) *)
NotEmpty(st, ini, empty) ==
    IF empty.exc # "none" THEN empty ELSE Returns(st, ini, Bool(~empty.ret.v))

(* !!index && !this.isArrayEmpty(key) *)
IsArrayIndex(st, ini, key, index) ==
    IF index.exc # "none" THEN index
    ELSE IF ~Truthy(index.ret) THEN Returns(st, ini, Bool(FALSE))
    ELSE NotEmpty(st, ini, IsArrayEmpty(st, ini, key))

(* isArray(key) *)
IsArray(st, ini, key) == IsArrayIndex(st, ini, key, GetArrayIndex(st, ini, key))

RECURSIVE DropSlots(_, _, _, _, _)
(* one turn of the while loop of drop over an array: slot i is deleted     *)
(* (st1), then arrayIndex[i].next is read from the link record sub; with   *)
(* no link record that read is a TypeError                                 *)
DropSlot(st1, ini, key, arrayIndex, sub) ==
    IF sub.t \in {"null", "undef"} THEN Throws(st1, ini, "TypeError")
    ELSE DropSlots(st1, ini, key, arrayIndex, GetProp(sub, NextName))

(* the while loop of drop over an array: i is the slot to delete next *)
DropSlots(st, ini, key, arrayIndex, i) ==
    IF i.t \in {"null", "undef"} THEN Returns(st, ini, Undefined)
    ELSE DropSlot(PSDrop(st, Prefix, SlotKey(key, i.v)), ini, key, arrayIndex,
                  GetProp(arrayIndex, NumToStr(i.v)))

RECURSIVE DropChunks(_, _, _, _)
(* for (let i = 0; i < index.max; i++) super.drop(key + "." + i), from i *)
DropChunks(st, key, i, max) ==
    IF i < max THEN DropChunks(PSDrop(st, Prefix, ChunkKey(key, i)), key, i + 1, max)
    ELSE st

(* this.setArrayIndex(key, undefined), once the slots are deleted *)
DropArrayHeader(ini, key, loop) ==
    IF loop.exc # "none" THEN loop ELSE SetArrayIndex(loop.st, ini, key, Undefined)

(* the array branch of drop *)
DropArray(st, ini, key, arrayIndex) ==
    IF arrayIndex.exc # "none" THEN arrayIndex
    ELSE IF ~Truthy(arrayIndex.ret) THEN Returns(st, ini, Undefined)
    ELSE DropArrayHeader(ini, key,
                         DropSlots(st, ini, key, arrayIndex.ret,
                                   GetProp(arrayIndex.ret, StartName)))

(* the value branch of drop *)
DropValue(st, ini, key, index) ==
    IF index.exc # "none" THEN index
    ELSE IF ~Truthy(index.ret) THEN Returns(PSDrop(st, Prefix, key), ini, Undefined)
    ELSE SetIndex(DropChunks(st, key, 0, GetProp(index.ret, MaxName).v),
                  ini, key, Undefined)

(* drop, once isArray(key) has answered *)
DropShape(st, ini, key, isArray) ==
    IF isArray.exc # "none" THEN isArray
    ELSE IF isArray.ret.v THEN DropArray(st, ini, key, GetArrayIndex(st, ini, key))
    ELSE DropValue(st, ini, key, GetIndex(st, ini, key))

(* drop(key) *)
Drop(st, ini, key) == DropShape(st, ini, key, IsArray(st, ini, key))

RECURSIVE WriteChunks(_, _, _, _)
(* for (let i = 0; i < chunks.length; i++) super.set(key + "." + i, chunks[i]) *)
WriteChunks(st, key, chunkList, i) ==
    IF i < Len(chunkList)
    THEN WriteChunks(PSSet(st, Prefix, ChunkKey(key, i), Str(chunkList[i + 1])),
                     key, chunkList, i + 1)
    ELSE st

(* the chunk writes of set, after setIndex left idx *)
SetChunks(key, chunkList, idx) ==
    Returns(WriteChunks(idx.st, key, chunkList, 0), idx.ini, Undefined)

(* index = { max: chunks.length }; this.setIndex(key, index); the chunks *)
SetSplit(st, ini, key, chunkList) ==
    SetChunks(key, chunkList,
              SetIndex(st, ini, key, Obj(<<Prop(MaxName, Num(Len(chunkList)))>>)))

(* set, after its conditional drop *)
SetDropped(key, value, dropped) ==
    IF dropped.exc # "none" THEN dropped
    ELSE IF ~Truthy(value) THEN Returns(dropped.st, dropped.ini, Undefined)
    ELSE IF HasNumericSuffix(key)
         THEN Returns(PSSet(dropped.st, Prefix, key, value), dropped.ini, Undefined)
    ELSE SetSplit(dropped.st, dropped.ini, key,
                  SplitValueIntoChunks(Serialize(value).v, MAX_BYTE_SIZE))

(* set, once getIndex(key) has answered *)
SetIndexed(st, ini, key, value, index) ==
    IF index.exc # "none" THEN index
    ELSE SetDropped(key, value,
                    IF Truthy(index.ret) \/ ~Truthy(value)
                    THEN Drop(st, ini, key)
                    ELSE Returns(st, ini, Undefined))

(* set(key, value) *)
Set(st, ini, key, value) == SetIndexed(st, ini, key, value, GetIndex(st, ini, key))

RECURSIVE ReadChunksSkipMissing(_, _, _, _, _)
(* a get loop that steps over a missing chunk instead of giving up *)
ReadChunksSkipMissing(st, key, i, max, result) ==
    IF i < max
    THEN LET chunk == PSGet(st, Prefix, ChunkKey(key, i), FALSE, Undefined) IN
         IF ~Truthy(chunk) THEN ReadChunksSkipMissing(st, key, i + 1, max, result)
         ELSE ReadChunksSkipMissing(st, key, i + 1, max, Cat(result, chunk.v))
    ELSE [ok |-> TRUE, result |-> result]

RECURSIVE ReadChunks(_, _, _, _, _)
(* one turn of the for loop of get, with the chunk read at i *)
ReadChunk(st, key, i, max, result, chunk) ==
    IF ~Truthy(chunk) THEN [ok |-> FALSE, result |-> result]
    ELSE ReadChunks(st, key, i + 1, max, Cat(result, chunk.v))

(* the for loop of get: ok is FALSE when a chunk is missing (or falsy),    *)
(* result the concatenation of the chunks read                             *)
ReadChunks(st, key, i, max, result) ==
    IF i < max
    THEN ReadChunk(st, key, i, max, result,
                   PSGet(st, Prefix, ChunkKey(key, i), FALSE, Undefined))
    ELSE [ok |-> TRUE, result |-> result]

(* get, after its loop over the chunks *)
GetJoined(st, ini, deserialize, defaultValue, r) ==
    IF ~r.ok THEN Returns(st, ini, defaultValue)
    ELSE IF r.result = EmptyStr THEN Returns(st, ini, defaultValue)
    ELSE IF deserialize THEN Returns(st, ini, Deserialize(r.result))
    ELSE Returns(st, ini, Str(r.result))

(* get, once getIndex(key) has answered *)
GetIndexed(st, ini, key, deserialize, defaultValue, index) ==
    IF index.exc # "none" THEN index
    ELSE IF ~Truthy(index.ret) THEN Returns(st, ini, defaultValue)
    ELSE GetJoined(st, ini, deserialize, defaultValue,
                   ReadChunks(st, key, 0, GetProp(index.ret, MaxName).v, EmptyStr))

(* get(key, deserialize, defaultValue) *)
Get(st, ini, key, deserialize, defaultValue) ==
    IF HasNumericSuffix(key)
    THEN Returns(st, ini, PSGet(st, Prefix, key, deserialize, defaultValue))
    ELSE GetIndexed(st, ini, key, deserialize, defaultValue, GetIndex(st, ini, key))

(* the link record { prev, next } of one array slot *)
SubIndex(prev, next) == Obj(<<Prop(PrevName, prev), Prop(NextName, next)>>)

(* the outcome w of a call, returning ret instead *)
WithRet(w, ret) == Outcome(w.st, w.ini, ret, w.exc)

(* if (index.end === index.start) { index.start = 0; index.end = 0 } *)
ResetEmpty(index0) ==
    IF GetProp(index0, EndName) = GetProp(index0, StartName)
    THEN SetProp(SetProp(index0, StartName, Num(0)), EndName, Num(0))
    ELSE index0

(* an assertMultiArray that saves the header whether or not create is set *)
AssertCreateAlways(st, ini, key, create, index) ==
    WithRet(SetArrayIndex(st, ini, key, index), index)

(* if (create) this.setArrayIndex(key, index); return index *)
AssertCreate(st, ini, key, create, index) ==
    IF create THEN WithRet(SetArrayIndex(st, ini, key, index), index)
    ELSE Returns(st, ini, index)

(* assertMultiArray, once getArrayIndex(key) has answered *)
AssertIndex(st, ini, key, create, got) ==
    IF got.exc # "none" THEN got
    ELSE AssertCreate(st, ini, key, create,
                      ResetEmpty(IF ~Truthy(got.ret)
                                 THEN Obj(<<Prop(StartName, Num(0)), Prop(EndName, Num(0))>>)
                                 ELSE got.ret))

(* assertMultiArray(key, create) *)
AssertMultiArray(st, ini, key, create) ==
    AssertIndex(st, ini, key, create, GetArrayIndex(st, ini, key))

(* rPush on the header index: the links, index.end++, the slot, the header *)
RPushAt(st, ini, key, value, index, start, end) ==
    LET tail == GetProp(index, NumToStr(end)) IN
    IF end # start /\ tail.t # "obj" THEN Throws(st, ini, "TypeError")
    ELSE SetArrayIndex(
             PSSet(st, Prefix, SlotKey(key, end + 1), value), ini, key,
             SetProp(IF end = start
                     THEN SetProp(index, NumToStr(end), SubIndex(Null, Null))
                     ELSE SetProp(SetProp(index, NumToStr(end),
                                          SetProp(tail, NextName, Num(end + 1))),
                                  NumToStr(end + 1), SubIndex(Num(end), Null)),
                     EndName, Num(end + 1)))

(* rPush, once assertMultiArray(key, true) has answered *)
RPushIndex(key, value, a) ==
    IF a.exc # "none" THEN a
    ELSE RPushAt(a.st, a.ini, key, value, a.ret,
                 GetProp(a.ret, StartName).v, GetProp(a.ret, EndName).v)

(* rPush(key, value) *)
RPush(st, ini, key, value) == RPushIndex(key, value, AssertMultiArray(st, ini, key, TRUE))

(* lPush on the header index: the links, index.start--, the slot, the header *)
LPushAt(st, ini, key, value, index, start, end) ==
    LET head == GetProp(index, NumToStr(start)) IN
    IF end # start /\ head.t # "obj" THEN Throws(st, ini, "TypeError")
    ELSE SetArrayIndex(
             PSSet(st, Prefix, SlotKey(key, start - 1), value), ini, key,
             SetProp(IF end = start
                     THEN SetProp(index, NumToStr(start), SubIndex(Null, Null))
                     ELSE SetProp(SetProp(index, NumToStr(start),
                                          SetProp(head, PrevName, Num(start - 1))),
                                  NumToStr(start - 1), SubIndex(Null, Num(start))),
                     StartName, Num(start - 1)))

(* lPush, once assertMultiArray(key, true) has answered *)
LPushIndex(key, value, a) ==
    IF a.exc # "none" THEN a
    ELSE LPushAt(a.st, a.ini, key, value, a.ret,
                 GetProp(a.ret, StartName).v, GetProp(a.ret, EndName).v)

(* lPush(key, value) *)
LPush(st, ini, key, value) == LPushIndex(key, value, AssertMultiArray(st, ini, key, TRUE))

(* a pop on the header index: the slot at `from` is read, the header       *)
(* saved with bound moved to `to`                                          *)
PopAt(st, ini, key, index, start, end, from, bound, to) ==
    IF end = start THEN Returns(st, ini, Undefined)
    ELSE WithRet(SetArrayIndex(st, ini, key, SetProp(index, bound, Num(to))),
                 PSGet(st, Prefix, SlotKey(key, from), TRUE, Undefined))

(* rPop, once assertMultiArray(key) has answered *)
RPopIndex(key, a) ==
    IF a.exc # "none" THEN a
    ELSE PopAt(a.st, a.ini, key, a.ret, GetProp(a.ret, StartName).v, GetProp(a.ret, EndName).v,
               GetProp(a.ret, EndName).v, EndName, GetProp(a.ret, EndName).v - 1)

(* rPop(key) *)
RPop(st, ini, key) == RPopIndex(key, AssertMultiArray(st, ini, key, FALSE))

(* lPop, once assertMultiArray(key) has answered *)
LPopIndex(key, a) ==
    IF a.exc # "none" THEN a
    ELSE PopAt(a.st, a.ini, key, a.ret, GetProp(a.ret, StartName).v, GetProp(a.ret, EndName).v,
               GetProp(a.ret, StartName).v, StartName, GetProp(a.ret, StartName).v + 1)

(* lPop(key) *)
LPop(st, ini, key) == LPopIndex(key, AssertMultiArray(st, ini, key, FALSE))

(* a MultiArray handle: new MultiArray(key, storage, index, subIndex) *)
MultiArray(key, index, subIndex) ==
    [t |-> "cursor", key |-> key, index |-> index, subIndex |-> subIndex]

(* new MultiArray(key, this, arrayIndex.start, arrayIndex[arrayIndex.start]) *)
MultiArrayAtStart(st, ini, key, arrayIndex, empty) ==
    IF empty.exc # "none" THEN empty
    ELSE IF empty.ret.v THEN Throws(st, ini, "TypeError")
    ELSE LET start == GetProp(arrayIndex, StartName).v IN
         Returns(st, ini, MultiArray(key, start, GetProp(arrayIndex, NumToStr(start))))

(* getMultiArray, once getArrayIndex(key) has answered *)
GetMultiArrayIndex(st, ini, key, arrayIndex) ==
    IF arrayIndex.exc # "none" THEN arrayIndex
    ELSE IF ~Truthy(arrayIndex.ret) THEN Throws(st, ini, "TypeError")
    ELSE MultiArrayAtStart(st, ini, key, arrayIndex.ret, IsArrayEmpty(st, ini, key))

(* getMultiArray(key) *)
GetMultiArray(st, ini, key) ==
    GetMultiArrayIndex(st, ini, key, GetArrayIndex(st, ini, key))

-----------------------------------------------------------------------------
(* MultiArray (multi-array.ts).  A cursor c is the record                  *)
(* [t |-> "cursor", key, index, subIndex] of its fields.  Its methods go   *)
(* through the get, set and drop of ExtendedStorage.  The module is strict *)
(* code: assigning a property of a number, boolean, string, null or        *)
(* undefined throws TypeError.                                             *)

(* arrayIndex[index], once getArrayIndex(key) has answered *)
SubIndexOf(st, ini, arrayIndex, index) ==
    IF arrayIndex.exc # "none" THEN arrayIndex
    ELSE IF ~Truthy(arrayIndex.ret) THEN Returns(st, ini, Undefined)
    ELSE Returns(st, ini, GetProp(arrayIndex.ret, NumToStr(index)))

(* getSubIndex(key, index) *)
GetSubIndex(st, ini, key, index) == SubIndexOf(st, ini, GetArrayIndex(st, ini, key), index)

(* ... === undefined, on what this.storage.get answered *)
IsUndefined(got) ==
    IF got.exc # "none" THEN got
    ELSE Returns(got.st, got.ini, Bool(got.ret.t = "undef"))

(* isRemoved() *)
IsRemoved(st, ini, c) ==
    IsUndefined(Get(st, ini, SlotKey(c.key, c.index), TRUE, Undefined))

(* getValue, once isRemoved() has answered *)
GetValueLive(st, ini, c, removed) ==
    IF removed.exc # "none" THEN removed
    ELSE IF removed.ret.v THEN Returns(st, ini, Undefined)
    ELSE Get(st, ini, SlotKey(c.key, c.index), TRUE, Undefined)

(* getValue() *)
GetValue(st, ini, c) == GetValueLive(st, ini, c, IsRemoved(st, ini, c))

(* setValue, once isRemoved() has answered *)
SetValueLive(st, ini, c, value, removed) ==
    IF removed.exc # "none" THEN removed
    ELSE IF removed.ret.v THEN Throws(st, ini, "Error")
    ELSE Set(st, ini, SlotKey(c.key, c.index), value)

(* setValue(value) *)
SetValue(st, ini, c, value) == SetValueLive(st, ini, c, value, IsRemoved(st, ini, c))

(* if (!subIndex) return null; return new MultiArray(key, storage, n, subIndex) *)
NeighbourAt(st, ini, key, n, sub) ==
    IF sub.exc # "none" THEN sub
    ELSE IF ~Truthy(sub.ret) THEN Returns(st, ini, Null)
    ELSE Returns(st, ini, MultiArray(key, n, sub.ret))

(* getNext / getPrev for the neighbour slot n read from this.subIndex: a   *)
(* slot number, or null at the end of the chain                            *)
Neighbour(st, ini, c, n) ==
    IF n.t = "null" THEN Returns(st, ini, Null)
    ELSE IF n.t # "num" THEN NeighbourAt(st, ini, c.key, n, WithRet(GetArrayIndex(st, ini, c.key), Undefined))
    ELSE NeighbourAt(st, ini, c.key, n.v, GetSubIndex(st, ini, c.key, n.v))

(* getNext(): reading this.subIndex.next of a missing link record throws *)
GetNext(st, ini, c) ==
    IF c.subIndex.t \in {"undef", "null"} THEN Throws(st, ini, "TypeError")
    ELSE Neighbour(st, ini, c, GetProp(c.subIndex, NextName))

(* getPrev() *)
GetPrev(st, ini, c) ==
    IF c.subIndex.t \in {"undef", "null"} THEN Throws(st, ini, "TypeError")
    ELSE Neighbour(st, ini, c, GetProp(c.subIndex, PrevName))

(* prev.next = ... ; this.storage.set(key + ".ar." + slot, prev): on the   *)
(* value got from the neighbour's slot key.  A property assigned to an     *)
(* array is not part of its JSON text.                                     *)
RelinkValue(st, ini, key, slot, field, v, got) ==
    IF got.exc # "none" THEN got
    ELSE IF got.ret.t \notin {"obj", "arr"} THEN Throws(st, ini, "TypeError")
    ELSE Set(st, ini, SlotKey(key, slot),
             IF got.ret.t = "obj" THEN SetProp(got.ret, field, v) ELSE got.ret)

(* if (this.subIndex.prev !== null) { ... }, and likewise for next: slot   *)
(* is the neighbour read from this.subIndex                                *)
Relink(st, ini, key, slot, field, v) ==
    IF slot.t = "null" THEN Returns(st, ini, Undefined)
    ELSE IF slot.t # "num" THEN Throws(st, ini, "TypeError")
    ELSE RelinkValue(st, ini, key, slot.v, field, v,
                     Get(st, ini, SlotKey(key, slot.v), TRUE, Undefined))

(* remove: this.storage.drop(key + ".ar." + index), after the relinking *)
RemoveDrop(c, relinked) ==
    IF relinked.exc # "none" THEN relinked
    ELSE Drop(relinked.st, relinked.ini, SlotKey(c.key, c.index))

(* remove: the next neighbour, after the previous one *)
RemoveNext(c, relinked) ==
    IF relinked.exc # "none" THEN relinked
    ELSE RemoveDrop(c, Relink(relinked.st, relinked.ini, c.key,
                              GetProp(c.subIndex, NextName), PrevName,
                              GetProp(c.subIndex, PrevName)))

(* remove() *)
Remove(st, ini, c) ==
    IF c.subIndex.t \in {"undef", "null"} THEN Throws(st, ini, "TypeError")
    ELSE RemoveNext(c, Relink(st, ini, c.key,
                              GetProp(c.subIndex, PrevName), NextName,
                              GetProp(c.subIndex, NextName)))

(* the outcome o of a cursor method together with cur, the cursor's fields *)
(* after the call                                                          *)
CursorOutcome(o, cur) ==
    [st |-> o.st, ini |-> o.ini, ret |-> o.ret, exc |-> o.exc, cur |-> cur]

(* this.storage.set(key, value), unless an earlier statement has thrown *)
ThenSet(o, key, value) == IF o.exc # "none" THEN o ELSE Set(o.st, o.ini, key, value)

(* the three writes of insertAfter / insertBefore: the cursor's link       *)
(* record under the cursor's slot key, then the new link record and the    *)
(* value under the new slot key                                            *)
InsertWrites(st, ini, key, index, newIndex, subIndex, newSubIndex, value) ==
    ThenSet(ThenSet(Set(st, ini, SlotKey(key, index), subIndex),
                    SlotKey(key, newIndex), newSubIndex),
            SlotKey(key, newIndex), value)

(* insertAfter at the new slot newIndex = index.end + 1 *)
InsertAfterAt(st, ini, c, value, newIndex) ==
    IF c.subIndex.t \in {"undef", "null"} THEN CursorOutcome(Throws(st, ini, "TypeError"), c)
    ELSE CursorOutcome(
             InsertWrites(st, ini, c.key, c.index, newIndex,
                          SetProp(c.subIndex, NextName, Num(newIndex)),
                          SubIndex(Num(c.index), GetProp(c.subIndex, NextName)), value),
             [c EXCEPT !.subIndex = SetProp(c.subIndex, NextName, Num(newIndex))])

(* insertAfter, once getArrayIndex(key) has answered *)
InsertAfterIndex(st, ini, c, value, arrayIndex) ==
    IF arrayIndex.exc # "none" THEN CursorOutcome(arrayIndex, c)
    ELSE IF ~Truthy(arrayIndex.ret) THEN CursorOutcome(Throws(st, ini, "Error"), c)
    ELSE InsertAfterAt(st, ini, c, value, GetProp(arrayIndex.ret, EndName).v + 1)

(* insertAfter(value) *)
InsertAfter(st, ini, c, value) ==
    InsertAfterIndex(st, ini, c, value, GetArrayIndex(st, ini, c.key))

(* insertBefore at the new slot newIndex = index.start - 1 *)
InsertBeforeAt(st, ini, c, value, newIndex) ==
    IF c.subIndex.t \in {"undef", "null"} THEN CursorOutcome(Throws(st, ini, "TypeError"), c)
    ELSE CursorOutcome(
             InsertWrites(st, ini, c.key, c.index, newIndex,
                          SetProp(c.subIndex, PrevName, Num(newIndex)),
                          SubIndex(GetProp(c.subIndex, PrevName), Num(c.index)), value),
             [c EXCEPT !.subIndex = SetProp(c.subIndex, PrevName, Num(newIndex))])

(* insertBefore, once getArrayIndex(key) has answered *)
InsertBeforeIndex(st, ini, c, value, arrayIndex) ==
    IF arrayIndex.exc # "none" THEN CursorOutcome(arrayIndex, c)
    ELSE IF ~Truthy(arrayIndex.ret) THEN CursorOutcome(Throws(st, ini, "Error"), c)
    ELSE InsertBeforeAt(st, ini, c, value, GetProp(arrayIndex.ret, StartName).v - 1)

(* insertBefore(value) *)
InsertBefore(st, ini, c, value) ==
    InsertBeforeIndex(st, ini, c, value, GetArrayIndex(st, ini, c.key))

RECURSIVE CountFrom(_, _, _, _)
(* while (multiArray) { length++; multiArray = multiArray.getNext() },     *)
(* from the cursor (or null) that cur returned                             *)
CountFrom(st, ini, cur, length) ==
    IF cur.exc # "none" THEN cur
    ELSE IF cur.ret.t # "cursor" THEN Returns(st, ini, Num(length))
    ELSE CountFrom(st, ini, GetNext(st, ini, cur.ret), length + 1)

(* getArrayLength, once getArrayIndex(key) has answered *)
LengthOfIndex(st, ini, key, index) ==
    IF index.exc # "none" THEN index
    ELSE IF ~Truthy(index.ret) THEN Returns(st, ini, Num(0))
    ELSE CountFrom(st, ini, GetMultiArray(st, ini, key), 0)

(* getArrayLength, once isArray(key) has answered *)
LengthOfArray(st, ini, key, isArray) ==
    IF isArray.exc # "none" THEN isArray
    ELSE IF ~isArray.ret.v THEN Returns(st, ini, Num(0))
    ELSE LengthOfIndex(st, ini, key, GetArrayIndex(st, ini, key))

(* getArrayLength(key) *)
GetArrayLength(st, ini, key) == LengthOfArray(st, ini, key, IsArray(st, ini, key))

-----------------------------------------------------------------------------
(* Inputs of the model.                                                    *)

(* how many full 32767-byte ceilings the longest stored string spans *)
MaxCeilings == 2
(* longest input string of the chunk codec, and its largest chunk size *)
MaxLen == 4
MaxLimit == 3

KeyA == Lit(<<Chr.a>>)
LongRemainder == 70000 - 2 * MAX_BYTE_SIZE

(* logical keys: "a", and "a.0", "a.1", which carry a numeric suffix *)
Keys == {KeyA, ChunkKey(KeyA, 0), ChunkKey(KeyA, 1)}

(* strings of a's around the ceiling: 1 byte, the ceiling, one more, and   *)
(* several ceilings plus a remainder (70000 bytes for two ceilings)        *)
LongStrings ==
    {Repeat(Chr.a, 1), Repeat(Chr.a, MAX_BYTE_SIZE), Repeat(Chr.a, MAX_BYTE_SIZE + 1),
     Repeat(Chr.a, MaxCeilings * MAX_BYTE_SIZE + LongRemainder)}

(* the values callers store *)
Values ==
    {Num(0), Num(7), Bool(FALSE), Bool(TRUE), Str(EmptyStr),
     Str(Lit(<<Chr.zero + 7>>)), Str(Lit(<<Chr.eacute>>)),
     Obj(<<Prop(KeyA, Num(1))>>), Arr(<<Num(1), Str(KeyA)>>)}
      \cup {Str(s) : s \in LongStrings}

(* the values stored next to arrays: a falsy one, a short and a long one *)
FewValues == {Num(0), Num(7), Str(Repeat(Chr.a, MaxCeilings * MAX_BYTE_SIZE + LongRemainder))}

(* the keys and values of the array operations *)
ArrayKeys == {KeyA}
PushValues == {Num(1), Num(2)}

(* the defaults callers pass to get: none, and the string "d" *)
Defaults == {Undefined, Str(Lit(<<Chr.d>>))}

Op(name, key, arg, dflt, o) ==
    [op |-> name, key |-> key, arg |-> arg, dflt |-> dflt, exc |-> o.exc, ret |-> o.ret]

NoOp == [op |-> "none", key |-> EmptyStr, arg |-> Undefined, dflt |-> Undefined,
         exc |-> "none", ret |-> Undefined]

CodecIdle == input = EmptyStr /\ limit = 0 /\ chunks = <<>>

(* no MultiArray handle is held *)
NoCursor == Null

(* private readonly cache: Map<string, any> = new Map() *)
NoCache == [k \in {} |-> Undefined]

Init ==
    /\ store = [k \in {} |-> Undefined]
    /\ init = FALSE
    /\ last = NoOp
    /\ CodecIdle
    /\ cursor = NoCursor
    /\ cache = NoCache

(* one call of a method of the storage: the backend, the init flag and the *)
(* record of the call and its outcome                                      *)
Call(name, key, arg, dflt, o) ==
    /\ store' = o.st
    /\ init' = o.ini
    /\ last' = Op(name, key, arg, dflt, o)
    /\ UNCHANGED <<input, limit, chunks, cursor, cache>>

(* a call that hands out a cursor or is made on the cursor held: cur is    *)
(* the cursor the caller holds afterwards                                  *)
CursorCall(name, key, arg, o, cur) ==
    /\ store' = o.st
    /\ init' = o.ini
    /\ last' = Op(name, key, arg, Undefined, o)
    /\ cursor' = cur
    /\ UNCHANGED <<input, limit, chunks, cache>>

(* pointer = ...: the cursor a call returned, else the one held before *)
Held(o) == IF o.exc = "none" /\ o.ret.t = "cursor" THEN o.ret ELSE cursor

DoSet(V) == \E k \in Keys, v \in V : Call("set", k, v, Undefined, Set(store, init, k, v))

DoGet ==
    \E k \in Keys, d \in Defaults :
        Call("get", k, Undefined, d, Get(store, init, k, TRUE, d))

DoDrop == \E k \in Keys : Call("drop", k, Undefined, Undefined, Drop(store, init, k))

DoRPush ==
    \E k \in ArrayKeys, v \in PushValues : Call("rPush", k, v, Undefined, RPush(store, init, k, v))

DoLPush ==
    \E k \in ArrayKeys, v \in PushValues : Call("lPush", k, v, Undefined, LPush(store, init, k, v))

DoRPop == \E k \in ArrayKeys : Call("rPop", k, Undefined, Undefined, RPop(store, init, k))

DoLPop == \E k \in ArrayKeys : Call("lPop", k, Undefined, Undefined, LPop(store, init, k))

DoGetMultiArray ==
    \E k \in ArrayKeys :
        CursorCall("getMultiArray", k, Undefined, GetMultiArray(store, init, k),
                   Held(GetMultiArray(store, init, k)))

(* every operation of ExtendedStorage, on few scalar values *)
Next ==
    \/ DoSet(FewValues)
    \/ DoGet
    \/ DoDrop
    \/ DoRPush
    \/ DoLPush
    \/ DoRPop
    \/ DoLPop
    \/ DoGetMultiArray

Spec == Init /\ [][Next]_vars

(* the scalar operations, on every value of Values *)
NextValues ==
    \/ DoSet(Values)
    \/ DoGet
    \/ DoDrop

SpecValues == Init /\ [][NextValues]_vars

-----------------------------------------------------------------------------
(* The arrays and their cursors on their own: the array operations of      *)
(* ExtendedStorage on one key and the methods of MultiArray.               *)

(* the slot numbers cursors are bound to run from -MaxSlot to MaxSlot *)
MaxSlot == 1
CursorSlots == (0 - MaxSlot)..MaxSlot

(* the link records of a cursor on slot i of a chain of consecutive slots: *)
(* each neighbour is the adjacent slot, or null at an end of the chain     *)
CursorLinks(i) == {SubIndex(p, n) : p \in {Null, Num(i - 1)}, n \in {Null, Num(i + 1)}}

(* element values: a number, and an object *)
ElementValues == {Num(1), Obj(<<Prop(KeyA, Num(2))>>)}

(* the values written through a cursor: a falsy and a truthy number *)
CursorValues == {Num(0), Num(3)}

DoRPushElement ==
    \E k \in ArrayKeys, v \in ElementValues :
        Call("rPush", k, v, Undefined, RPush(store, init, k, v))

DoLPushElement ==
    \E k \in ArrayKeys, v \in ElementValues :
        Call("lPush", k, v, Undefined, LPush(store, init, k, v))

DoDropArray ==
    \E k \in ArrayKeys : Call("drop", k, Undefined, Undefined, Drop(store, init, k))

DoGetArrayLength ==
    \E k \in ArrayKeys :
        Call("getArrayLength", k, Undefined, Undefined, GetArrayLength(store, init, k))

(* new MultiArray(key, storage, index, subIndex) *)
DoNewMultiArray ==
    \E k \in ArrayKeys, i \in CursorSlots :
        \E s \in CursorLinks(i) :
            CursorCall("new", k, Num(i), Returns(store, init, MultiArray(k, i, s)),
                       MultiArray(k, i, s))

DoGetValue ==
    /\ cursor # NoCursor
    /\ CursorCall("getValue", cursor.key, Undefined, GetValue(store, init, cursor), cursor)

DoIsRemoved ==
    /\ cursor # NoCursor
    /\ CursorCall("isRemoved", cursor.key, Undefined, IsRemoved(store, init, cursor), cursor)

DoSetValue ==
    /\ cursor # NoCursor
    /\ \E v \in CursorValues :
          CursorCall("setValue", cursor.key, v, SetValue(store, init, cursor, v), cursor)

(* pointer = pointer.getNext(), kept when getNext returns null *)
DoGetNext ==
    /\ cursor # NoCursor
    /\ CursorCall("getNext", cursor.key, Undefined, GetNext(store, init, cursor),
                  Held(GetNext(store, init, cursor)))

DoGetPrev ==
    /\ cursor # NoCursor
    /\ CursorCall("getPrev", cursor.key, Undefined, GetPrev(store, init, cursor),
                  Held(GetPrev(store, init, cursor)))

DoRemove ==
    /\ cursor # NoCursor
    /\ CursorCall("remove", cursor.key, Undefined, Remove(store, init, cursor), cursor)

DoInsertAfter ==
    /\ cursor # NoCursor
    /\ \E v \in CursorValues :
          CursorCall("insertAfter", cursor.key, v, InsertAfter(store, init, cursor, v),
                     InsertAfter(store, init, cursor, v).cur)

DoInsertBefore ==
    /\ cursor # NoCursor
    /\ \E v \in CursorValues :
          CursorCall("insertBefore", cursor.key, v, InsertBefore(store, init, cursor, v),
                     InsertBefore(store, init, cursor, v).cur)

(* the array operations of ExtendedStorage and the methods of MultiArray *)
NextArray ==
    \/ DoRPushElement
    \/ DoLPushElement
    \/ DoRPop
    \/ DoLPop
    \/ DoDropArray
    \/ DoGetMultiArray
    \/ DoGetArrayLength
    \/ DoNewMultiArray
    \/ DoGetValue
    \/ DoIsRemoved
    \/ DoSetValue
    \/ DoGetNext
    \/ DoGetPrev
    \/ DoRemove
    \/ DoInsertAfter
    \/ DoInsertBefore

SpecArray == Init /\ [][NextArray]_vars

-----------------------------------------------------------------------------
(* The chunk codec on its own: splitValueIntoChunks applied to one input   *)
(* string with one chunk size.                                             *)

(* code units of the codec inputs: a, e-acute (U+00E9), euro sign (U+20AC) *)
CodecAlphabet == {Chr.a, Chr.eacute, Chr.euro}

ShortInputs == {Lit(cs) : cs \in UNION {[1..n -> CodecAlphabet] : n \in 0..MaxLen}}

(* short inputs under chunk sizes 1..MaxLimit and the default one, long    *)
(* inputs under the default chunk size                                     *)
CodecCases ==
    (ShortInputs \X ((1..MaxLimit) \cup {MAX_BYTE_SIZE}))
      \cup (LongStrings \X {MAX_BYTE_SIZE})

InitCodec ==
    /\ store = [k \in {} |-> Undefined]
    /\ init = FALSE
    /\ last = NoOp
    /\ \E c \in CodecCases : input = c[1] /\ limit = c[2]
    /\ chunks = <<>>
    /\ cursor = NoCursor
    /\ cache = NoCache

DoSplit ==
    /\ last.op = "none"
    /\ chunks' = SplitValueIntoChunks(input, limit)
    /\ last' = [NoOp EXCEPT !.op = "split"]
    /\ UNCHANGED <<store, init, input, limit, cursor, cache>>

NextCodec == DoSplit

SpecCodec == InitCodec /\ [][NextCodec]_vars

-----------------------------------------------------------------------------
(* PropertyStorage on its own: a root storage new PropertyStorage(world)   *)
(* and the storage of its sub-storage "s", on one backend.                 *)
KeyK == Lit(<<Chr.k>>)
SubName == Lit(<<Chr.s>>)

(* the prefixes of the two storages *)
Handles == {Prefix, GetSubStoragePrefix(Prefix, SubName)}

PropertyKeys == {KeyK}

(* the scalars callers store: a falsy and a truthy one *)
PropertyValues == {Num(0), Num(7)}

(* the elements callers push, on the root storage *)
Elements == {Num(1), Num(2)}

(* the patterns callers pass to clear and getAll: none, and "k" *)
Patterns == {Undefined, Str(KeyK)}

(* how many elements the arrays of the model grow to *)
MaxElems == 2

(* the stored array under the full key has room for one more element *)
HasRoom(st, key) ==
    IF key \notin DOMAIN st THEN TRUE
    ELSE IF Deserialize(st[key].v).t # "arr" THEN TRUE
    ELSE Len(Deserialize(st[key].v).v) < MaxElems

(* one call of a method of a PropertyStorage: the backend and the record   *)
(* of the call, with the full key it addressed                             *)
PropertyCall(name, key, arg, dflt, o) ==
    /\ store' = o.st
    /\ last' = Op(name, key, arg, dflt, o)
    /\ UNCHANGED <<init, input, limit, chunks, cursor, cache>>

DoPropertySet ==
    \E h \in Handles, k \in PropertyKeys, v \in PropertyValues :
        PropertyCall("set", Cat(h, k), v, Undefined, PReturns(PSSet(store, h, k, v), Undefined))

DoPropertyGet ==
    \E h \in Handles, k \in PropertyKeys :
        PropertyCall("get", Cat(h, k), Undefined, Undefined,
                     PReturns(store, PSGet(store, h, k, TRUE, Undefined)))

DoPropertyDrop ==
    \E h \in Handles, k \in PropertyKeys :
        PropertyCall("drop", Cat(h, k), Undefined, Undefined,
                     PReturns(PSDrop(store, h, k), Undefined))

DoPropertyRPush ==
    \E k \in PropertyKeys, v \in Elements :
        /\ HasRoom(store, Cat(Prefix, k))
        /\ PropertyCall("rPush", Cat(Prefix, k), v, Undefined,
                        PSRPush(store, Prefix, k, v))

DoPropertyLPush ==
    \E k \in PropertyKeys, v \in Elements :
        /\ HasRoom(store, Cat(Prefix, k))
        /\ PropertyCall("lPush", Cat(Prefix, k), v, Undefined,
                        PSLPush(store, Prefix, k, v))

DoPropertyRPop ==
    \E k \in PropertyKeys :
        PropertyCall("rPop", Cat(Prefix, k), Undefined, Undefined,
                     PSRPop(store, Prefix, k))

DoPropertyLPop ==
    \E k \in PropertyKeys :
        PropertyCall("lPop", Cat(Prefix, k), Undefined, Undefined,
                     PSLPop(store, Prefix, k))

DoClear ==
    \E h \in Handles, p \in Patterns, sub \in BOOLEAN :
        PropertyCall("clear", h, p, Bool(sub), Clear(store, h, p, sub))

DoGetAll ==
    \E h \in Handles, p \in Patterns, d \in BOOLEAN :
        PropertyCall("getAll", h, p, Bool(d),
                     PReturns(store, [t |-> "entries", v |-> GetAll(store, h, p, d)]))

DoSearchKeys ==
    \E h \in Handles, p \in Patterns :
        PropertyCall("searchKeys", h, p, Undefined,
                     PReturns(store, [t |-> "keys", v |-> SearchKeys(store, h, p)]))

(* root.getSubStorage("s") *)
DoGetSubStorage ==
    PropertyCall("getSubStorage", Prefix, Str(SubName), Undefined,
                 GetSubStorage(store, Prefix, SubName))

NextProperty ==
    \/ DoPropertySet
    \/ DoPropertyGet
    \/ DoPropertyDrop
    \/ DoPropertyRPush
    \/ DoPropertyLPush
    \/ DoPropertyRPop
    \/ DoPropertyLPop
    \/ DoClear
    \/ DoGetAll
    \/ DoSearchKeys
    \/ DoGetSubStorage

SpecProperty == Init /\ [][NextProperty]_vars

-----------------------------------------------------------------------------
(* CachedStorage on its own: one instance new CachedStorage(world), the    *)
(* only writer of its backend.                                             *)

(* one call of a method of the CachedStorage *)
CachedCall(name, key, arg, dflt, o) ==
    /\ store' = o.st
    /\ cache' = o.cache
    /\ last' = Op(name, key, arg, dflt, o)
    /\ UNCHANGED <<init, input, limit, chunks, cursor>>

DoCachedSet ==
    \E k \in PropertyKeys \cup {SubName}, v \in PropertyValues :
        CachedCall("set", k, v, Undefined, CachedSet(store, cache, Prefix, k, v))

DoCachedGet ==
    \E k \in PropertyKeys \cup {SubName}, d \in Defaults :
        CachedCall("get", k, Undefined, d,
                   COutcome(store, cache, CachedGet(store, cache, Prefix, k, TRUE, d), "none"))

DoCachedDrop ==
    \E k \in PropertyKeys \cup {SubName} :
        CachedCall("drop", k, Undefined, Undefined, CachedDrop(store, cache, Prefix, k))

DoCachedRemove ==
    \E k \in PropertyKeys \cup {SubName} :
        CachedCall("remove", k, Undefined, Undefined, CachedRemove(store, cache, Prefix, k))

DoCachedClear ==
    \E p \in Patterns, sub \in BOOLEAN :
        CachedCall("clear", Prefix, p, Bool(sub), CachedClear(store, cache, Prefix, p, sub))

DoCachedGetSubStorage ==
    CachedCall("getSubStorage", Prefix, Str(SubName), Undefined,
               CachedGetSubStorage(store, cache, Prefix, SubName))

NextCached ==
    \/ DoCachedSet
    \/ DoCachedGet
    \/ DoCachedDrop
    \/ DoCachedRemove
    \/ DoCachedClear
    \/ DoCachedGetSubStorage

SpecCached == Init /\ [][NextCached]_vars

-----------------------------------------------------------------------------
(* Measures used by the properties.                                        *)

RECURSIVE JoinChunks(_)
(* the segments concatenated in index order *)
JoinChunks(cs) == IF cs = <<>> THEN EmptyStr ELSE Cat(cs[1], JoinChunks(Tail(cs)))

RECURSIVE Utf8Len(_)
(* the number of bytes of the UTF-8 encoding of a string: what a dynamic   *)
(* property holding the string weighs (a surrogate pair is 4 bytes)        *)
Utf8Len(s) ==
    IF s = <<>> THEN 0
    ELSE (CASE s[1].c < 128 -> 1
            [] s[1].c < 2048 -> 2
            [] s[1].c >= 55296 /\ s[1].c < 57344 -> 2
            [] OTHER -> 3) * s[1].n + Utf8Len(Tail(s))

CeilDiv(n, d) == (n + d - 1) \div d

-----------------------------------------------------------------------------
(* C2: chunk codec round trip.  For every input string and every chunk     *)
(* size >= 1, the segments of splitValueIntoChunks concatenated in index   *)
(* order are the input again (non-ASCII code units included), the empty    *)
(* string gives no segment, and no segment is empty.                       *)
C2_CodecRoundTrip ==
    last.op = "split" =>
        /\ JoinChunks(chunks) = input
        /\ (input = EmptyStr => chunks = <<>>)
        /\ \A j \in 1..Len(chunks) : chunks[j] # EmptyStr

(* C3: splitValueIntoChunks is greedy and bounded.  An input of n bytes    *)
(* under limit L gives ceil(n / L) segments, each of L bytes but the last, *)
(* which holds the remaining 1..L bytes; 70000 bytes under 32767 give      *)
(* segments of 32767, 32767 and 4466 bytes.                                *)
C3_GreedyBounded ==
    last.op = "split" =>
        LET n == Utf8Len(input)
            count == CeilDiv(n, limit)
        IN /\ Len(chunks) = count
           /\ \A j \in 1..Len(chunks) :
                 Utf8Len(chunks[j]) = IF j < count THEN limit ELSE n - (count - 1) * limit
           /\ (n = 70000 /\ limit = 32767 =>
                 /\ Len(chunks) = 3
                 /\ Utf8Len(chunks[1]) = 32767
                 /\ Utf8Len(chunks[2]) = 32767
                 /\ Utf8Len(chunks[3]) = 4466)

-----------------------------------------------------------------------------
(* Shapes of a logical key in the backend.                                 *)

(* the meta record key + ".index" as get reads it *)
MetaOf(st, key) == PSGet(st, Prefix, Cat(key, IndexSuffix), TRUE, Undefined)

(* the meta record of key is a value index { max: n }, n a number >= 1 *)
IsValueIndex(st, key) ==
    /\ MetaOf(st, key).t = "obj"
    /\ GetProp(MetaOf(st, key), MaxName).t = "num"
    /\ GetProp(MetaOf(st, key), MaxName).v >= 1

ChunkCount(st, key) == GetProp(MetaOf(st, key), MaxName).v

(* key holds a chunked value of m chunks, all of them present *)
HoldsChunked(st, key, m) ==
    /\ IsValueIndex(st, key)
    /\ ChunkCount(st, key) = m
    /\ \A j \in 0..(m - 1) : ChunkKey(key, j) \in DOMAIN st

(* the value index of key declares a chunk that the backend does not hold *)
CorruptChunkSet(st, key) ==
    /\ IsValueIndex(st, key)
    /\ \E j \in 0..(ChunkCount(st, key) - 1) : ChunkKey(key, j) \notin DOMAIN st

(* the physical keys derived from key: key itself and every key + "." ... *)
DerivedKeys(st, key) ==
    {k \in DOMAIN st : k = key \/ StartsWith(k, Cat(key, DotStr))}

(* an array header { start, end, ... } is persisted for key: under the     *)
(* meta key, or under the bare key, where setArrayIndex writes it          *)
HasArrayHeader(st, key) ==
    \/ HasProp(MetaOf(st, key), StartName)
    \/ HasProp(PSGet(st, Prefix, key, TRUE, Undefined), StartName)

HasSlotKey(st, key) == \E k \in DOMAIN st : StartsWith(k, Cat(key, ArInfix))

(* the number of chunks the serialized value needs under the ceiling *)
NeededChunks(value) == CeilDiv(Utf8Len(Serialize(value).v), MAX_BYTE_SIZE)

ArrayOps == {"rPush", "lPush", "rPop", "lPop", "getMultiArray"}

-----------------------------------------------------------------------------
(* C1: round trip.  After set(K, v), for every key K and every value v of  *)
(* Values (numbers, booleans, strings, objects, arrays; 1 byte, the        *)
(* ceiling, several ceilings plus a remainder), get(K) returns v.          *)
C1_RoundTrip ==
    last.op = "set" =>
        /\ last.exc = "none"
        /\ Get(store, init, last.key, TRUE, Undefined).exc = "none"
        /\ Get(store, init, last.key, TRUE, Undefined).ret = last.arg

(* C4: shrink cleanup.  A set(K, v2) on a key holding m chunks, with v2    *)
(* needing n < m chunks, succeeds, leaves exactly K.index and K.0..K.(n-1) *)
(* of the keys derived from K, and get(K) returns v2.                      *)
C4_ShrinkCleanup ==
    [][\A m \in 1..(MaxCeilings + 2) :
          (/\ HoldsChunked(store, KeyA, m)
           /\ last'.op = "set"
           /\ last'.key = KeyA
           /\ Truthy(last'.arg)
           /\ NeededChunks(last'.arg) < m)
          => (/\ last'.exc = "none"
              /\ DerivedKeys(store', KeyA)
                   = {Cat(KeyA, IndexSuffix)}
                       \cup {ChunkKey(KeyA, j) : j \in 0..(NeededChunks(last'.arg) - 1)}
              /\ Get(store', init', KeyA, TRUE, Undefined).ret = last'.arg)]_vars

(* C5: drop of a chunked value.  drop(K) on a key holding a chunked value  *)
(* returns, a following get(K, _, d) returns d, and no physical key        *)
(* derived from K remains; a second drop(K) changes nothing.               *)
C5_DropChunked ==
    [][\A m \in 1..(MaxCeilings + 2) :
          (/\ HoldsChunked(store, KeyA, m)
           /\ last'.op = "drop"
           /\ last'.key = KeyA)
          => (/\ last'.exc = "none"
              /\ \A d \in Defaults : Get(store', init', KeyA, TRUE, d).ret = d
              /\ DerivedKeys(store', KeyA) = {}
              /\ Drop(store', init', KeyA).st = store')]_vars

(* C6: corrupt chunk set.  Whenever the value index of K declares a chunk  *)
(* that is absent from the backend, get(K, _, d) returns d and throws      *)
(* nothing: no part of the value is reassembled.                           *)
C6_CorruptChunkSet ==
    /\ \A d \in Defaults :
          CorruptChunkSet(store, KeyA) =>
              /\ Get(store, init, KeyA, TRUE, d).exc = "none"
              /\ Get(store, init, KeyA, TRUE, d).ret = d
              /\ Get(store, init, KeyA, FALSE, d).ret = d
    /\ (last.op = "get" /\ last.key = KeyA /\ CorruptChunkSet(store, KeyA)) =>
          (last.exc = "none" /\ last.ret = last.dflt)

(* a get of "a" with default "d" was answered with "d" while chunk 1 of a  *)
(* three-chunk value was missing and chunk 0 was still there               *)
C6_Witness ==
    /\ last.op = "get"
    /\ last.key = KeyA
    /\ last.dflt = Str(Lit(<<Chr.d>>))
    /\ last.ret = Str(Lit(<<Chr.d>>))
    /\ IsValueIndex(store, KeyA)
    /\ ChunkCount(store, KeyA) = 3
    /\ ChunkKey(KeyA, 0) \in DOMAIN store
    /\ ChunkKey(KeyA, 1) \notin DOMAIN store

(* C7: shape exclusivity.  In every state reached by set, drop, rPush,     *)
(* lPush, rPop, lPop and getMultiArray no key carries both shapes: a value *)
(* index for K excludes an array header and a slot key K.ar.i for K.       *)
C7_ShapeExclusive ==
    \A k \in ArrayKeys :
        ~(IsValueIndex(store, k) /\ (HasArrayHeader(store, k) \/ HasSlotKey(store, k)))

(* C8: type mismatch on array operations.  Whenever the meta record of K   *)
(* is a value index, each of rPush, lPush, rPop, lPop and getMultiArray on *)
(* K throws TypeError and leaves the backend as it was.                    *)
C8_ArrayOpsOnScalar ==
    /\ \A k \in ArrayKeys :
          IsValueIndex(store, k) =>
              /\ \A v \in PushValues :
                    /\ RPush(store, init, k, v).exc = "TypeError"
                    /\ RPush(store, init, k, v).st = store
                    /\ LPush(store, init, k, v).exc = "TypeError"
                    /\ LPush(store, init, k, v).st = store
              /\ RPop(store, init, k).exc = "TypeError"
              /\ RPop(store, init, k).st = store
              /\ LPop(store, init, k).exc = "TypeError"
              /\ LPop(store, init, k).st = store
              /\ GetMultiArray(store, init, k).exc = "TypeError"
              /\ GetMultiArray(store, init, k).st = store
    /\ (last.op \in ArrayOps /\ IsValueIndex(store, last.key)) => last.exc = "TypeError"

(* an rPush on "a" was refused with TypeError while "a" held a chunked     *)
(* scalar of three chunks                                                  *)
C8_Witness ==
    /\ last.op = "rPush"
    /\ last.key = KeyA
    /\ last.exc = "TypeError"
    /\ HoldsChunked(store, KeyA, 3)

(* C9: type mismatch on scalar operations.  Once rPush or lPush persisted  *)
(* an array header for K, get(K) and set(K, v) throw TypeError.            *)
C9_ScalarOpsOnArray ==
    (last.op \in {"rPush", "lPush"} /\ last.exc = "none") =>
        /\ Get(store, init, last.key, TRUE, Undefined).exc = "TypeError"
        /\ \A v \in FewValues : Set(store, init, last.key, v).exc = "TypeError"

(* how many pushes a FIFO/LIFO run makes *)
MaxPushes == 3

RECURSIVE PushAll(_, _, _)
(* rPush(key, xs[1]), ..., rPush(key, xs[n]) from outcome o *)
PushAll(o, key, xs) ==
    IF xs = <<>> \/ o.exc # "none" THEN o
    ELSE PushAll(RPush(o.st, o.ini, key, xs[1]), key, Tail(xs))

RECURSIVE PopAll(_, _, _, _, _)
(* the values returned by n pops from outcome o: lPop when left, else rPop *)
PopAll(o, key, left, n, acc) ==
    IF n = 0 \/ o.exc # "none" THEN acc
    ELSE LET p == IF left THEN LPop(o.st, o.ini, key) ELSE RPop(o.st, o.ini, key) IN
         PopAll(p, key, left, n - 1, Append(acc, IF p.exc = "none" THEN p.ret ELSE Str(Lit(<<Chr.e>>))))

Reverse(xs) == [j \in 1..Len(xs) |-> xs[Len(xs) + 1 - j]]

PushRuns == UNION {[1..n -> PushValues] : n \in 1..MaxPushes}

(* C10: FIFO/LIFO laws.  On a fresh key K, after rPush(K, x1) ..           *)
(* rPush(K, xn), n lPops return x1..xn in order, or n rPops return xn..x1, *)
(* and the pop after them returns undefined.                               *)
C10_FifoLifo ==
    \A k \in ArrayKeys :
        DerivedKeys(store, k) = {} =>
            \A xs \in PushRuns :
                LET pushed == PushAll(Returns(store, init, Undefined), k, xs) IN
                /\ pushed.exc = "none"
                /\ PopAll(pushed, k, TRUE, Len(xs) + 1, <<>>) = Append(xs, Undefined)
                /\ PopAll(pushed, k, FALSE, Len(xs) + 1, <<>>) = Append(Reverse(xs), Undefined)

-----------------------------------------------------------------------------
(* Measures of an array.                                                   *)

(* the persisted array header of key: the record under the meta key, where *)
(* getArrayIndex reads it, else the record under the bare key, where       *)
(* setArrayIndex writes it                                                 *)
HeaderOf(st, key) ==
    IF HasProp(MetaOf(st, key), StartName) THEN MetaOf(st, key)
    ELSE IF HasProp(PSGet(st, Prefix, key, TRUE, Undefined), StartName)
         THEN PSGet(st, Prefix, key, TRUE, Undefined)
    ELSE Undefined

(* the slot numbers an array of the model can use *)
SlotRange == (0 - MaxPushes - MaxSlot - 1)..(MaxPushes + MaxSlot + 1)

LinkOf(h, s) == GetProp(h, NumToStr(s))

(* the slots that have a link entry in header h *)
LinkSlots(h) == {s \in SlotRange : LinkOf(h, s).t = "obj"}

(* the slots whose value key key.ar.s is in the backend *)
ValueSlots(st, key) == {s \in SlotRange : SlotKey(key, s) \in DOMAIN st}

(* the element stored under key.ar.s *)
SlotValue(st, key, s) == PSGet(st, Prefix, SlotKey(key, s), TRUE, Undefined)

RECURSIVE ChainFrom(_, _, _, _)
(* the slots visited from slot s of header h along the field dir, at most  *)
(* fuel of them                                                            *)
ChainFrom(h, s, dir, fuel) ==
    IF fuel = 0 \/ s.t # "num" THEN <<>>
    ELSE IF LinkOf(h, s.v).t # "obj" THEN <<>>
    ELSE <<s.v>> \o ChainFrom(h, GetProp(LinkOf(h, s.v), dir), dir, fuel - 1)

RECURSIVE WalkFrom(_, _, _, _)
(* the values read by getValue() while following getNext() from the cursor *)
(* cur returned, until null; ok is FALSE when a call throws or the walk    *)
(* is longer than the backend has keys                                     *)
WalkFrom(st, ini, cur, acc) ==
    IF cur.exc # "none" \/ Len(acc) > Cardinality(DOMAIN st) THEN [ok |-> FALSE, vals |-> acc]
    ELSE IF cur.ret.t # "cursor" THEN [ok |-> TRUE, vals |-> acc]
    ELSE WalkFrom(st, ini, GetNext(st, ini, cur.ret),
                  Append(acc, GetValue(st, ini, cur.ret).ret))

(* the head-to-tail traversal of array key through getMultiArray *)
Traversal(st, ini, key) == WalkFrom(st, ini, GetMultiArray(st, ini, key), <<>>)

(* no physical key of key is in the backend *)
Fresh(st, key) == DerivedKeys(st, key) = {}

(* C11: head traversal order.  On a fresh key K, after rPush(K, x1) ..     *)
(* rPush(K, xn) and lPush(K, x0), following getNext() from                 *)
(* getMultiArray(K) until null reads x0, x1, .., xn; rPop(K) then returns  *)
(* xn and the traversal reads x0, x1, .., x(n-1).                          *)
C11_HeadTraversal ==
    \A k \in ArrayKeys :
        Fresh(store, k) =>
            \A xs \in PushRuns : \A x0 \in PushValues :
                LET pushed == PushAll(Returns(store, init, Undefined), k, xs)
                    all == LPush(pushed.st, pushed.ini, k, x0)
                    popped == RPop(all.st, all.ini, k) IN
                /\ all.exc = "none"
                /\ Traversal(all.st, all.ini, k) = [ok |-> TRUE, vals |-> <<x0>> \o xs]
                /\ popped.exc = "none"
                /\ popped.ret = xs[Len(xs)]
                /\ Traversal(popped.st, popped.ini, k)
                       = [ok |-> TRUE, vals |-> <<x0>> \o SubSeq(xs, 1, Len(xs) - 1)]

(* the slots of header h that no slot precedes / follows *)
Heads(h) == {s \in LinkSlots(h) : GetProp(LinkOf(h, s), PrevName).t = "null"}

Tails(h) == {s \in LinkSlots(h) : GetProp(LinkOf(h, s), NextName).t = "null"}

SeqRange(xs) == {xs[j] : j \in 1..Len(xs)}

(* the link entries of header h form one doubly linked chain: one head,    *)
(* one tail, the walk along next from the head visits every entry once and *)
(* ends at the tail, and the walk along prev from the tail is its reverse  *)
OneChain(h) ==
    /\ Cardinality(Heads(h)) = 1
    /\ Cardinality(Tails(h)) = 1
    /\ \A head \in Heads(h) : \A tail \in Tails(h) :
           LET forward == ChainFrom(h, Num(head), NextName, Cardinality(LinkSlots(h)) + 1)
               backward == ChainFrom(h, Num(tail), PrevName, Cardinality(LinkSlots(h)) + 1) IN
           /\ Len(forward) = Cardinality(LinkSlots(h))
           /\ SeqRange(forward) = LinkSlots(h)
           /\ forward[Len(forward)] = tail
           /\ backward = Reverse(forward)

(* C12: chain integrity.  Whenever the header of K has live elements, its  *)
(* link entries form one doubly linked chain from a head (prev = null) to  *)
(* a tail (next = null), the same forwards and backwards, and the value    *)
(* key K.ar.s of every slot s of the chain is present.                     *)
C12_ChainIntegrity ==
    \A k \in ArrayKeys :
        LinkSlots(HeaderOf(store, k)) # {} =>
            /\ OneChain(HeaderOf(store, k))
            /\ LinkSlots(HeaderOf(store, k)) \subseteq ValueSlots(store, k)

(* key is Absent or Empty: the backend holds no array header for it, or a  *)
(* header with start = end, and its meta key is not the chunk count of a   *)
(* scalar                                                                  *)
AbsentOrEmpty(st, key) ==
    /\ ~IsValueIndex(st, key)
    /\ \/ HeaderOf(st, key) = Undefined
       \/ GetProp(HeaderOf(st, key), StartName) = GetProp(HeaderOf(st, key), EndName)

(* C13: pop on an empty array.  rPop(K) and lPop(K) on a key K that is     *)
(* Absent or Empty return undefined, raise no fault, and create, change or *)
(* delete no physical key.                                                 *)
C13_PopOnEmpty ==
    \A k \in ArrayKeys :
        AbsentOrEmpty(store, k) =>
            /\ RPop(store, init, k) = Returns(store, init, Undefined)
            /\ LPop(store, init, k) = Returns(store, init, Undefined)

(* an rPop or lPop has just answered on an Absent key whose backend still  *)
(* holds slot keys of an earlier array                                     *)
C13_Witness ==
    /\ last.op \in {"rPop", "lPop"}
    /\ last.key = KeyA
    /\ last.exc = "none"
    /\ last.ret = Undefined
    /\ AbsentOrEmpty(store, KeyA)
    /\ HasSlotKey(store, KeyA)

(* the array of key in st holds n live elements: n value keys and n link   *)
(* entries that form one chain, or start = end and neither when n = 0      *)
HoldsElements(st, key, n) ==
    /\ Cardinality(ValueSlots(st, key)) = n
    /\ Cardinality(LinkSlots(HeaderOf(st, key))) = n
    /\ n > 0 => OneChain(HeaderOf(st, key))
    /\ n = 0 => GetProp(HeaderOf(st, key), StartName) = GetProp(HeaderOf(st, key), EndName)

(* C14: pop on a populated array.  After rPush(K, x1) .. rPush(K, xn) on a *)
(* fresh key, rPop(K) returns the tail value xn and lPop(K) the head value *)
(* x1; the pop deletes that slot's value key and link entry and leaves a   *)
(* chain of the n - 1 other elements, and the array is Empty (start = end, *)
(* no link entries) after the last element is popped.                      *)
C14_PopOnPopulated ==
    \A k \in ArrayKeys :
        Fresh(store, k) =>
            \A xs \in PushRuns :
                LET pushed == PushAll(Returns(store, init, Undefined), k, xs)
                    right == RPop(pushed.st, pushed.ini, k)
                    left == LPop(pushed.st, pushed.ini, k) IN
                /\ right.exc = "none" /\ right.ret = xs[Len(xs)]
                /\ HoldsElements(right.st, k, Len(xs) - 1)
                /\ left.exc = "none" /\ left.ret = xs[1]
                /\ HoldsElements(left.st, k, Len(xs) - 1)

RECURSIVE PopSome(_, _, _, _)
(* n pops from outcome o: lPop when left, else rPop *)
PopSome(o, key, left, n) ==
    IF n = 0 \/ o.exc # "none" THEN o
    ELSE PopSome(IF left THEN LPop(o.st, o.ini, key) ELSE RPop(o.st, o.ini, key),
                 key, left, n - 1)

(* getArrayLength(key) after outcome o *)
LengthAfter(o, key) == GetArrayLength(o.st, o.ini, key)

(* C15: array length.  getArrayLength(K) is the number of live elements:   *)
(* 0 on an Absent key, n after n pushes on a fresh key, and n - m after m  *)
(* of them were popped again.                                              *)
C15_ArrayLength ==
    \A k \in ArrayKeys :
        Fresh(store, k) =>
            /\ GetArrayLength(store, init, k) = Returns(store, init, Num(0))
            /\ \A xs \in PushRuns : \A m \in 0..Len(xs) : \A left \in BOOLEAN :
                   LET pushed == PushAll(Returns(store, init, Undefined), k, xs)
                       popped == PopSome(pushed, k, left, m) IN
                   /\ popped.exc = "none"
                   /\ LengthAfter(popped, k).exc = "none"
                   /\ LengthAfter(popped, k).ret = Num(Len(xs) - m)

(* key is Absent in outcome o: no array header and no slot value key is in *)
(* the backend, isArray(key) is false and getArrayLength(key) is 0         *)
AbsentAfter(o, key) ==
    /\ ~HasArrayHeader(o.st, key)
    /\ ~HasSlotKey(o.st, key)
    /\ IsArray(o.st, o.ini, key).ret = Bool(FALSE)
    /\ GetArrayLength(o.st, o.ini, key).ret = Num(0)

(* C16: array lifecycle and drop.  A fresh key K becomes a Populated array *)
(* by rPush / lPush, and drop(K) on an array of any number of elements     *)
(* makes K Absent: no array header and no slot value key K.ar.i remains,   *)
(* isArray(K) is false and getArrayLength(K) is 0.                         *)
C16_LifecycleDrop ==
    \A k \in ArrayKeys :
        Fresh(store, k) =>
            \A xs \in PushRuns :
                LET pushed == PushAll(Returns(store, init, Undefined), k, xs)
                    dropped == Drop(pushed.st, pushed.ini, k) IN
                /\ pushed.exc = "none"
                /\ HasArrayHeader(pushed.st, k)
                /\ dropped.exc = "none"
                /\ AbsentAfter(dropped, k)

(* the cursors on slot s of key that the constructor can build *)
CursorsAt(key, s) == {MultiArray(key, s, link) : link \in CursorLinks(s)}

(* C17: cursor read.  For a cursor bound to slot s of array K, s positive, *)
(* zero or negative, and whatever link record it holds: when the value key *)
(* K.ar.s exists getValue() returns the value stored under it and          *)
(* isRemoved() is false; when it does not, getValue() returns undefined    *)
(* and isRemoved() is true.                                                *)
C17_CursorRead ==
    \A k \in ArrayKeys : \A s \in CursorSlots : \A c \in CursorsAt(k, s) :
        /\ GetValue(store, init, c).exc = "none"
        /\ IsRemoved(store, init, c).exc = "none"
        /\ s \in ValueSlots(store, k) =>
               /\ GetValue(store, init, c).ret = SlotValue(store, k, s)
               /\ IsRemoved(store, init, c).ret = Bool(FALSE)
        /\ s \notin ValueSlots(store, k) =>
               /\ GetValue(store, init, c).ret = Undefined
               /\ IsRemoved(store, init, c).ret = Bool(TRUE)

(* after the removal that left outcome o, setValue(x) on cursor c throws   *)
(* and writes nothing                                                      *)
StaleWriteFails(o, c, x) ==
    /\ o.exc = "none"
    /\ SetValue(o.st, o.ini, c, x).exc # "none"
    /\ SetValue(o.st, o.ini, c, x).st = o.st

(* C18: stale cursor write.  With a cursor bound to the slot of the only   *)
(* element of array K, once that element is removed by rPop, by lPop, by   *)
(* drop or by remove() through another cursor on the slot, setValue(x) on  *)
(* the cursor throws and writes no physical key.                           *)
C18_StaleCursorWrite ==
    \A k \in ArrayKeys :
        Fresh(store, k) =>
            \A v \in ElementValues : \A x \in CursorValues \cup ElementValues :
                LET pushed == RPush(store, init, k, v) IN
                \A s \in ValueSlots(pushed.st, k) :
                    LET c == MultiArray(k, s, SubIndex(Null, Null))
                        other == MultiArray(k, s, SubIndex(Null, Null)) IN
                    /\ StaleWriteFails(RPop(pushed.st, pushed.ini, k), c, x)
                    /\ StaleWriteFails(LPop(pushed.st, pushed.ini, k), c, x)
                    /\ StaleWriteFails(Drop(pushed.st, pushed.ini, k), c, x)
                    /\ StaleWriteFails(Remove(pushed.st, pushed.ini, other), c, x)

RECURSIVE Advance(_, _, _, _)
(* the cursor answered by n calls of getNext() from the one cur returned *)
Advance(st, ini, cur, n) ==
    IF n = 0 \/ cur.exc # "none" \/ cur.ret.t # "cursor" THEN cur
    ELSE Advance(st, ini, GetNext(st, ini, cur.ret), n - 1)

(* the cursor on the j-th element of array key, from getMultiArray(key) *)
NthCursor(st, ini, key, j) == Advance(st, ini, GetMultiArray(st, ini, key), j - 1)

(* xs without its j-th element *)
Without(xs, j) == SubSeq(xs, 1, j - 1) \o SubSeq(xs, j + 1, Len(xs))

(* outcome o is that of a remove() of slot s that returned: the value key  *)
(* and the link entry of s are gone and n elements are left in one chain   *)
Spliced(o, key, s, n) ==
    /\ o.exc = "none"
    /\ s \notin ValueSlots(o.st, key)
    /\ s \notin LinkSlots(HeaderOf(o.st, key))
    /\ HoldsElements(o.st, key, n)

(* C19: cursor remove splices the chain.  After rPush(K, x1) ..            *)
(* rPush(K, xn) on a fresh key, remove() on the live cursor of the j-th    *)
(* element leaves no value key and no link entry for its slot, a chain of  *)
(* the n - 1 other elements, and a head-to-tail traversal that reads xs    *)
(* without xj; the same holds for a cursor built on the slot of the only   *)
(* element of a one-element array.                                         *)
C19_RemoveSplices ==
    \A k \in ArrayKeys :
        Fresh(store, k) =>
            /\ \A v \in ElementValues :
                   LET pushed == RPush(store, init, k, v) IN
                   \A s \in ValueSlots(pushed.st, k) :
                       Spliced(Remove(pushed.st, pushed.ini, MultiArray(k, s, SubIndex(Null, Null))),
                               k, s, 0)
            /\ \A xs \in PushRuns : \A j \in 1..Len(xs) :
                   LET pushed == PushAll(Returns(store, init, Undefined), k, xs)
                       at == NthCursor(pushed.st, pushed.ini, k, j) IN
                   /\ at.exc = "none"
                   /\ at.ret.t = "cursor"
                   /\ Spliced(Remove(pushed.st, pushed.ini, at.ret), k, at.ret.index, Len(xs) - 1)
                   /\ Len(xs) > 1 =>
                          Traversal(Remove(pushed.st, pushed.ini, at.ret).st, TRUE, k)
                              = [ok |-> TRUE, vals |-> Without(xs, j)]

(* C20: remove on an already-removed slot.  After rPush(K, v) on a fresh   *)
(* key and a remove() that returned on the cursor of the element's slot, a *)
(* second remove() on that cursor throws and changes no physical key.      *)
C20_RemoveRemoved ==
    \A k \in ArrayKeys :
        Fresh(store, k) =>
            \A v \in ElementValues :
                LET pushed == RPush(store, init, k, v) IN
                \A s \in ValueSlots(pushed.st, k) :
                    LET c == MultiArray(k, s, SubIndex(Null, Null))
                        once == Remove(pushed.st, pushed.ini, c)
                        twice == Remove(once.st, once.ini, c) IN
                    /\ once.exc = "none"
                    /\ s \notin ValueSlots(once.st, k)
                    /\ twice.exc # "none"
                    /\ twice.st = once.st

(* the slot number held by field of the persisted header of key *)
HeaderBound(st, key, field) == GetProp(HeaderOf(st, key), field)

(* outcome o is that of an insert that returned on array key as st0 held   *)
(* it: value x is stored in the new slot, no other value key changed, and  *)
(* the header bound field moved to the new slot while the other bound kept *)
Allocated(o, st0, key, new, x, field, other) ==
    /\ o.exc = "none"
    /\ new \notin ValueSlots(st0, key) \cup LinkSlots(HeaderOf(st0, key))
    /\ ValueSlots(o.st, key) = ValueSlots(st0, key) \cup {new}
    /\ SlotValue(o.st, key, new) = x
    /\ \A s \in ValueSlots(st0, key) : SlotValue(o.st, key, s) = SlotValue(st0, key, s)
    /\ HeaderBound(o.st, key, field) = Num(new)
    /\ HeaderBound(o.st, key, other) = HeaderBound(st0, key, other)

(* C21: insert allocates outside the range and extends it.  With a cursor  *)
(* on the only element of array K (after rPush(K, v) on a fresh key),      *)
(* insertAfter(x) stores x in the new slot end + 1 and insertBefore(x) in  *)
(* start - 1, a slot that no live element occupies or references, and      *)
(* persists the extended end / start in the array header.                  *)
C21_InsertAllocates ==
    \A k \in ArrayKeys :
        Fresh(store, k) =>
            \A v \in ElementValues : \A x \in ElementValues :
                LET pushed == RPush(store, init, k, v) IN
                /\ HeaderBound(pushed.st, k, EndName).t = "num"
                /\ HeaderBound(pushed.st, k, StartName).t = "num"
                /\ \A s \in ValueSlots(pushed.st, k) :
                       LET c == MultiArray(k, s, SubIndex(Null, Null)) IN
                       /\ Allocated(InsertAfter(pushed.st, pushed.ini, c, x), pushed.st, k,
                                    HeaderBound(pushed.st, k, EndName).v + 1, x,
                                    EndName, StartName)
                       /\ Allocated(InsertBefore(pushed.st, pushed.ini, c, x), pushed.st, k,
                                    HeaderBound(pushed.st, k, StartName).v - 1, x,
                                    StartName, EndName)

(* C22: insert splices next to the cursor.  With a cursor c on the only    *)
(* element v of array K, after c.insertAfter(x) a head-to-tail traversal   *)
(* reads v, x and after c.insertBefore(x) it reads x, v; c.getValue()      *)
(* still returns v.                                                        *)
C22_InsertSplices ==
    \A k \in ArrayKeys :
        Fresh(store, k) =>
            \A v \in ElementValues : \A x \in ElementValues :
                LET pushed == RPush(store, init, k, v) IN
                \A s \in ValueSlots(pushed.st, k) :
                    LET c == MultiArray(k, s, SubIndex(Null, Null))
                        after == InsertAfter(pushed.st, pushed.ini, c, x)
                        before == InsertBefore(pushed.st, pushed.ini, c, x) IN
                    /\ after.exc = "none"
                    /\ Traversal(after.st, after.ini, k) = [ok |-> TRUE, vals |-> <<v, x>>]
                    /\ GetValue(after.st, after.ini, after.cur).ret = v
                    /\ before.exc = "none"
                    /\ Traversal(before.st, before.ini, k) = [ok |-> TRUE, vals |-> <<x, v>>]
                    /\ GetValue(before.st, before.ini, before.cur).ret = v

(* the elements of the JSON array stored under key: none for an absent key *)
StoredArray(st, prefix, key) ==
    IF PSGet(st, prefix, key, TRUE, Undefined).t = "arr"
    THEN PSGet(st, prefix, key, TRUE, Undefined).v
    ELSE <<>>

(* outcome o of a deque operation returned ret and left the array xs under key *)
LeavesArray(o, prefix, key, ret, xs) ==
    /\ o.exc = "none"
    /\ o.ret = ret
    /\ PSGet(o.st, prefix, key, TRUE, Undefined) = Arr(xs)

(* outcome o is a TypeError that left the backend st untouched *)
RejectsNonArray(o, st) == o.exc = "TypeError" /\ o.st = st

RECURSIVE PushAllBack(_, _, _, _)
(* rPush(key, xs[1]), rPush(key, xs[2]), ... on backend st *)
PushAllBack(st, prefix, key, xs) ==
    IF xs = <<>> THEN st
    ELSE PushAllBack(PSRPush(st, prefix, key, xs[1]).st, prefix, key, Tail(xs))

(* C23: PropertyStorage JSON-array deque.  For a key whose stored value is *)
(* a JSON array A (an absent key counts as the empty array), rPush         *)
(* appends, lPush prepends, rPop removes and returns the last element and  *)
(* lPop the first, and both return undefined on the empty array; [1 .. 5]  *)
(* then rPush 2, 3, 4, 5 and lPush 1 gives [1, 1, 2, 3, 4, 5, 2, 3, 4, 5]; *)
(* on a key that holds a stored non-array value each of the four throws    *)
(* TypeError and leaves the value unchanged.                               *)
C23_JsonArrayDeque ==
    \A k \in PropertyKeys :
        LET got == PSGet(store, Prefix, k, TRUE, Undefined)
            A == StoredArray(store, Prefix, k)
            five == <<Num(1), Num(2), Num(3), Num(4), Num(5)>> IN
        /\ got.t \in {"undef", "arr"} =>
               /\ \A v \in Elements :
                      /\ LeavesArray(PSRPush(store, Prefix, k, v), Prefix, k, Undefined,
                                     Append(A, v))
                      /\ LeavesArray(PSLPush(store, Prefix, k, v), Prefix, k, Undefined,
                                     <<v>> \o A)
               /\ A # <<>> =>
                      /\ LeavesArray(PSRPop(store, Prefix, k), Prefix, k, A[Len(A)],
                                     SubSeq(A, 1, Len(A) - 1))
                      /\ LeavesArray(PSLPop(store, Prefix, k), Prefix, k, A[1], Tail(A))
               /\ A = <<>> =>
                      /\ LeavesArray(PSRPop(store, Prefix, k), Prefix, k, Undefined, <<>>)
                      /\ LeavesArray(PSLPop(store, Prefix, k), Prefix, k, Undefined, <<>>)
        /\ got.t \notin {"undef", "arr"} =>
               /\ \A v \in Elements :
                      /\ RejectsNonArray(PSRPush(store, Prefix, k, v), store)
                      /\ RejectsNonArray(PSLPush(store, Prefix, k, v), store)
               /\ RejectsNonArray(PSRPop(store, Prefix, k), store)
               /\ RejectsNonArray(PSLPop(store, Prefix, k), store)
        /\ StoredArray(PSLPush(PushAllBack(PSSet(store, Prefix, k, Arr(five)), Prefix, k,
                                           Tail(five)),
                               Prefix, k, Num(1)).st, Prefix, k)
               = <<Num(1)>> \o five \o Tail(five)

(* C24: cache coherence of CachedStorage.  After any sequence of set,      *)
(* drop, remove and clear issued through one CachedStorage, get(key,       *)
(* deserialize, default) on it returns what PropertyStorage.get returns on *)
(* the same backend and prefix; a key the backend does not hold reads as   *)
(* the default.                                                            *)
C24_CacheCoherence ==
    \A k \in PropertyKeys \cup {SubName} : \A d \in Defaults : \A deserialize \in BOOLEAN :
        CachedGet(store, cache, Prefix, k, deserialize, d)
            = PSGet(store, Prefix, k, deserialize, d)

RECURSIVE ChunkWriteSteps(_, _, _, _)
(* the backends after each super.set(key + "." + i, chunks[i]) of the for  *)
(* loop of set, from backend st and chunk i                                *)
ChunkWriteSteps(st, key, chunkList, i) ==
    IF i < Len(chunkList)
    THEN <<PSSet(st, Prefix, ChunkKey(key, i), Str(chunkList[i + 1]))>>
             \o ChunkWriteSteps(PSSet(st, Prefix, ChunkKey(key, i), Str(chunkList[i + 1])),
                                key, chunkList, i + 1)
    ELSE <<>>

(* the backends after each physical write of set(key, value) of a truthy   *)
(* value on a key without value index and numeric suffix: the value index  *)
(* (setIndex, with the marker of initStorage), then the chunks in order    *)
SetSteps(st, ini, key, chunkList) ==
    <<PSSet(st, Prefix, Cat(key, IndexSuffix), Obj(<<Prop(MaxName, Num(Len(chunkList)))>>)),
      SetIndex(st, ini, key, Obj(<<Prop(MaxName, Num(Len(chunkList)))>>)).st>>
        \o ChunkWriteSteps(SetIndex(st, ini, key, Obj(<<Prop(MaxName, Num(Len(chunkList)))>>)).st,
                           key, chunkList, 0)

(* the backends after each physical write of rPush / lPush(key, value),    *)
(* for the header a that assertMultiArray(key, true) answered and wrote    *)
(* (with the marker of initStorage) and the slot the value goes to: the    *)
(* header, the slot value, the header again (the outcome pushed)           *)
PushSteps(st, key, value, a, slot, pushed) ==
    <<PSSet(st, Prefix, key, a.ret), a.st,
      PSSet(a.st, Prefix, SlotKey(key, slot), value), pushed.st>>

RPushSteps(st, ini, key, value) ==
    PushSteps(st, key, value, AssertMultiArray(st, ini, key, TRUE),
              GetProp(AssertMultiArray(st, ini, key, TRUE).ret, EndName).v + 1,
              RPush(st, ini, key, value))

LPushSteps(st, ini, key, value) ==
    PushSteps(st, key, value, AssertMultiArray(st, ini, key, TRUE),
              GetProp(AssertMultiArray(st, ini, key, TRUE).ret, StartName).v - 1,
              LPush(st, ini, key, value))

(* the keys under which a header of key is persisted *)
HeaderKeys(key) == {key, Cat(key, IndexSuffix)}

(* backends a and b differ in keys of ks only, and do differ *)
WritesOnly(a, b, ks) ==
    /\ a # b
    /\ \A x \in (DOMAIN a \cup DOMAIN b) \ ks : x \in DOMAIN a /\ x \in DOMAIN b /\ a[x] = b[x]

(* a reader that follows the persisted header of key finds every chunk and *)
(* every slot value the header refers to                                   *)
HeaderConsistent(st, key) ==
    /\ ~CorruptChunkSet(st, key)
    /\ LinkSlots(HeaderOf(st, key)) \subseteq ValueSlots(st, key)

(* the last write of steps is the header write, and the header is          *)
(* consistent after every write before it                                  *)
HeaderLast(steps, key) ==
    /\ WritesOnly(steps[Len(steps) - 1], steps[Len(steps)], HeaderKeys(key))
    /\ \A j \in 1..(Len(steps) - 1) : HeaderConsistent(steps[j], key)

(* C25: header is written last.  In set writing the chunks of a fresh key  *)
(* K and in rPush / lPush writing a slot value, the header write (value    *)
(* index, array header) is the last physical write, and between two        *)
(* physical writes a reader that follows the persisted header finds every  *)
(* chunk or slot the header refers to.                                     *)
C25_HeaderLast ==
    \A k \in ArrayKeys :
        Fresh(store, k) =>
            /\ \A v \in {w \in FewValues : Truthy(w)} :
                   LET steps == SetSteps(store, init, k,
                                         SplitValueIntoChunks(Serialize(v).v, MAX_BYTE_SIZE)) IN
                   /\ steps[Len(steps)] = Set(store, init, k, v).st
                   /\ HeaderLast(steps, k)
            /\ \A v \in PushValues :
                   /\ RPushSteps(store, init, k, v)[4] = RPush(store, init, k, v).st
                   /\ HeaderLast(RPushSteps(store, init, k, v), k)
                   /\ HeaderLast(LPushSteps(store, init, k, v), k)

(* the chunk keys key.i of the backend with i >= n *)
ChunksBeyond(st, key, n) ==
    {k \in DOMAIN st : \E i \in n..(n + MaxLen) : k = ChunkKey(key, i)}

(* what a stored dynamic property weighs: the bytes of its string *)
StoredBytes(st, k) == IF st[k].t = "str" THEN Utf8Len(st[k].v) ELSE 0

(* the value index { max: n } of key describes its chunks: n >= 1, the     *)
(* chunks key.0 .. key.(n-1) exist, none beyond, each within the ceiling   *)
ValueIndexOk(st, key) ==
    HasProp(MetaOf(st, key), MaxName) =>
        /\ IsValueIndex(st, key)
        /\ ~CorruptChunkSet(st, key)
        /\ ChunksBeyond(st, key, ChunkCount(st, key)) = {}
        /\ \A j \in 0..(ChunkCount(st, key) - 1) :
               StoredBytes(st, ChunkKey(key, j)) <= MAX_BYTE_SIZE

(* C26: value index invariant.  After any sequence of set, get and drop on *)
(* logical keys, whenever the meta record of K is a value index            *)
(* { max: n }, n >= 1, each chunk key K.0 .. K.(n-1) exists, no chunk key  *)
(* K.i with i >= n exists, and every chunk is at most 32767 bytes.         *)
C26_ValueIndexInvariant == \A k \in Keys : ValueIndexOk(store, k)

(* the array of key in st holds one element: one link entry                *)
(* { prev: null, next: null }, whose slot is the slot of the one value     *)
(* key, within start .. end                                                *)
SoleElement(st, key) ==
    /\ Cardinality(LinkSlots(HeaderOf(st, key))) = 1
    /\ LinkSlots(HeaderOf(st, key)) = ValueSlots(st, key)
    /\ \A s \in LinkSlots(HeaderOf(st, key)) :
           /\ LinkOf(HeaderOf(st, key), s) = SubIndex(Null, Null)
           /\ GetProp(HeaderOf(st, key), StartName).v <= s
           /\ s <= GetProp(HeaderOf(st, key), EndName).v

(* the push that took st0 to o.st added one link entry and one value key,  *)
(* both with the same slot number                                          *)
SameNewSlot(o, st0, key) ==
    /\ o.exc = "none"
    /\ Cardinality(ValueSlots(o.st, key) \ ValueSlots(st0, key)) = 1
    /\ LinkSlots(HeaderOf(o.st, key)) \ LinkSlots(HeaderOf(st0, key))
           = ValueSlots(o.st, key) \ ValueSlots(st0, key)

(* C27: first push slot consistency.  After rPush(K, v) or lPush(K, v) on  *)
(* an Absent or Empty array the persisted header has exactly one link      *)
(* entry, { prev: null, next: null }, whose slot number is the one under   *)
(* which v is stored (K.ar.<slot>), with start <= slot <= end; a push on   *)
(* the array so populated adds a link entry and a value key with the same  *)
(* slot number.                                                            *)
C27_FirstPushSlot ==
    \A k \in ArrayKeys : \A v \in PushValues :
        (AbsentOrEmpty(store, k) /\ ValueSlots(store, k) = {}) =>
            /\ RPush(store, init, k, v).exc = "none"
            /\ SoleElement(RPush(store, init, k, v).st, k)
            /\ LPush(store, init, k, v).exc = "none"
            /\ SoleElement(LPush(store, init, k, v).st, k)
            /\ \A w \in PushValues :
                   /\ SameNewSlot(RPush(RPush(store, init, k, v).st, TRUE, k, w),
                                  RPush(store, init, k, v).st, k)
                   /\ SameNewSlot(LPush(LPush(store, init, k, v).st, TRUE, k, w),
                                  LPush(store, init, k, v).st, k)

(* the outcome o answers a cursor whose getValue() reads value *)
CursorReading(o, value) ==
    /\ o.exc = "none"
    /\ o.ret.t = "cursor"
    /\ GetValue(o.st, o.ini, o.ret) = Returns(o.st, o.ini, value)

(* the outcome o answers null *)
AnswersNull(o) == o.exc = "none" /\ o.ret = Null

(* C28: cursor navigation re-reads the index.  getNext() and getPrev()     *)
(* take the neighbour slot from the array index as persisted at the time   *)
(* of the call, not from the link record captured when the cursor was      *)
(* created: a cursor obtained on the only element of K, after which        *)
(* another handle pushes a second element next to it, answers a cursor on  *)
(* that element from getNext() (getPrev() for lPush), and null at the      *)
(* ends of the chain.                                                      *)
C28_NavigationRereads ==
    \A k \in ArrayKeys :
        Fresh(store, k) =>
            \A v \in PushValues : \A w \in PushValues :
                LET one == RPush(store, init, k, v)
                    held == GetMultiArray(one.st, one.ini, k)
                    right == RPush(one.st, one.ini, k, w)
                    left == LPush(one.st, one.ini, k, w) IN
                /\ CursorReading(held, v)
                /\ CursorReading(GetNext(right.st, right.ini, held.ret), w)
                /\ AnswersNull(GetPrev(right.st, right.ini, held.ret))
                /\ CursorReading(GetPrev(left.st, left.ini, held.ret), w)
                /\ AnswersNull(GetNext(left.st, left.ini, held.ret))

(* the sub-storages registered with the storage of prefix own: the names   *)
(* of its registry, read as getSubStorage reads it                         *)
Registered(st, own) == PSGet(st, own, SubStoragesName, TRUE, Arr(<<>>))

(* key lies inside a registered sub-storage of the storage of prefix own *)
InRegisteredSub(st, own, key) ==
    /\ Registered(st, own).t = "arr"
    /\ \E j \in 1..Len(Registered(st, own).v) :
           /\ Registered(st, own).v[j].t = "str"
           /\ StartsWith(key, GetSubStoragePrefix(own, Registered(st, own).v[j].v))

(* the keys clear(pattern, includeSubStorages) is to delete *)
ToClear(st, own, pattern, includeSubStorages) ==
    {key \in DOMAIN st :
         \/ StartsWith(key, IF Truthy(pattern) THEN Cat(own, pattern.v) ELSE own)
         \/ includeSubStorages /\ InRegisteredSub(st, own, key)}

(* the outcome o of a clear on st deleted the keys of gone, the registry   *)
(* key of own apart, left every other key with its value, and left the     *)
(* registry listing the same sub-storages                                  *)
ClearedExactly(o, st, own, gone) ==
    /\ o.exc = "none"
    /\ DOMAIN o.st \ {Cat(own, SubStoragesName)} = (DOMAIN st \ gone) \ {Cat(own, SubStoragesName)}
    /\ \A key \in (DOMAIN st \ gone) \ {Cat(own, SubStoragesName)} : o.st[key] = st[key]
    /\ Registered(o.st, own) = Registered(st, own)

(* C29: frame of clear.  clear(pattern, includeSubStorages) on a storage   *)
(* with prefix P deletes exactly the backend keys that start with          *)
(* P + pattern (P alone without pattern) and, when includeSubStorages is   *)
(* true, the keys inside each registered sub-storage; every other key      *)
(* keeps its value, and the registry lists the same sub-storages as        *)
(* before the call.                                                        *)
C29_ClearFrame ==
    \A h \in Handles : \A p \in Patterns : \A sub \in BOOLEAN :
        ClearedExactly(Clear(store, h, p, sub), store, h, ToClear(store, h, p, sub))

(* the entries getAll(pattern) is to return for the storage of prefix own: *)
(* one per backend key that starts with own + pattern, keyed by the key    *)
(* without own, with the value get() returns for it                        *)
StoredEntries(st, own, pattern) ==
    {Entry(DropN(key, StrLen(own)),
           PSGet(st, own, DropN(key, StrLen(own)), TRUE, Undefined)) :
         key \in {id \in DOMAIN st :
                      StartsWith(id, IF Truthy(pattern) THEN Cat(own, pattern.v) ELSE own)}}

(* C30: getAll returns stored values.  For a storage with any prefix P,    *)
(* the non-empty prefix of a sub-storage included, getAll(pattern) returns *)
(* one entry per backend key that starts with P + pattern, keyed by that   *)
(* key with P stripped, whose value is what get() returns for that key.    *)
C30_GetAllStored ==
    \A h \in Handles : \A p \in Patterns :
        GetAll(store, h, p, TRUE) = StoredEntries(store, h, p)

-----------------------------------------------------------------------------
(* the keys of the namespace of the storage of prefix own that match       *)
(* pattern, each without own                                               *)
KeysInNamespace(st, own, pattern) ==
    {DropN(key, StrLen(own)) :
         key \in {id \in DOMAIN st :
                      StartsWith(id, IF Truthy(pattern) THEN Cat(own, pattern.v) ELSE own)}}

(* C31: searchKeys stays inside the namespace.  For a storage with prefix  *)
(* P, searchKeys(pattern), with or without a pattern, returns exactly the  *)
(* backend keys that start with P (with P + pattern when a pattern is      *)
(* given), each with P stripped; a key written under another prefix never  *)
(* appears in the result.                                                  *)
C31_SearchKeysNamespace ==
    \A h \in Handles : \A p \in Patterns :
        SearchKeys(store, h, p) = KeysInNamespace(store, h, p)

(* what get(key) answers on the backend that the outcome o left: the       *)
(* value returned and the exception thrown                                 *)
Answer(o, key) ==
    <<Get(o.st, o.ini, key, TRUE, Undefined).ret, Get(o.st, o.ini, key, TRUE, Undefined).exc>>

(* C32: independence of logical keys.  For all distinct caller-supplied    *)
(* keys K1 # K2, keys that end in a numeric suffix included, set(K1, v)    *)
(* and drop(K1) leave the result of get(K2) unchanged.                     *)
C32_KeyIndependence ==
    \A k1 \in Keys : \A k2 \in Keys \ {k1} :
        /\ \A v \in Values :
               Answer(Set(store, init, k1, v), k2) = Answer(Returns(store, init, Undefined), k2)
        /\ Answer(Drop(store, init, k1), k2) = Answer(Returns(store, init, Undefined), k2)

-----------------------------------------------------------------------------
(* ExtendedStorage with the clear it inherits from PropertyStorage.        *)

(* the outcome o of a PropertyStorage method, as the outcome of a call on  *)
(* the ExtendedStorage whose init flag is ini                              *)
Inherited(o, ini) == [st |-> o.st, ini |-> ini, ret |-> o.ret, exc |-> o.exc]

(* clear, once this.get("subStorages", false, []) has answered: the get of *)
(* ExtendedStorage, which answers the default [] while no value index is   *)
(* stored for the logical key "subStorages"                                *)
ClearGot(pattern, includeSubStorages, got) ==
    IF got.exc # "none" THEN got
    ELSE Inherited(ClearWith(got.st, Prefix, pattern, includeSubStorages, got.ret), got.ini)

(* clear(pattern, includeSubStorages) called on an ExtendedStorage *)
ClearExtended(st, ini, pattern, includeSubStorages) ==
    ClearGot(pattern, includeSubStorages, Get(st, ini, SubStoragesName, FALSE, Arr(<<>>)))

(* static isExtendedStorage(storage), storage a PropertyStorage over the   *)
(* backend: storage.get("shape_extended_storage")                          *)
IsExtendedStorage(st) == PSGet(st, Prefix, MarkerKey, TRUE, Undefined)

(* static isExtendedStorage(storage), storage the ExtendedStorage itself:  *)
(* storage.get is the get of ExtendedStorage                               *)
IsExtendedStorageOfExtended(st, ini) == Get(st, ini, MarkerKey, TRUE, Undefined)

(* the patterns passed to clear: none, "a", and "shape" *)
ClearPatterns == {Undefined, Str(KeyA), Str(TakeN(MarkerKey, 5))}

DoClearExtended ==
    \E p \in ClearPatterns, sub \in BOOLEAN :
        Call("clear", EmptyStr, p, Bool(sub), ClearExtended(store, init, p, sub))

DoIsExtendedStorage ==
    Call("isExtendedStorage", MarkerKey, Undefined, Undefined,
         IsExtendedStorageOfExtended(store, init))

(* the operations that write and delete headers, and clear *)
NextMarker ==
    \/ DoSet(FewValues)
    \/ DoDrop
    \/ DoRPush
    \/ DoLPush
    \/ DoClearExtended
    \/ DoIsExtendedStorage

SpecMarker == Init /\ [][NextMarker]_vars

(* the backend holds a value index or an array header of a key of the model *)
HoldsHeader(st) ==
    \E k \in Keys : HasProp(MetaOf(st, k), MaxName) \/ HasArrayHeader(st, k)

(* C33: extended-storage marker invariant.  After any sequence of set,     *)
(* rPush, lPush, drop and clear through an ExtendedStorage, whenever the   *)
(* backend holds a value index or array header written by it, the marker   *)
(* key "shape_extended_storage" under its prefix is true, and              *)
(* isExtendedStorage(s) returns true for a storage s over that backend and *)
(* prefix, s a PropertyStorage or the ExtendedStorage itself.              *)
C33_MarkerInvariant ==
    HoldsHeader(store) =>
        /\ GetDynamicProperty(store, Cat(Prefix, MarkerKey)) = Serialize(Bool(TRUE))
        /\ IsExtendedStorage(store) = Bool(TRUE)
        /\ IsExtendedStorageOfExtended(store, init) = Returns(store, init, Bool(TRUE))

(* the marker is true and a PropertyStorage over the backend is recognised *)
(* while a header is held                                                  *)
MarkerOfPropertyStorage ==
    HoldsHeader(store) =>
        /\ GetDynamicProperty(store, Cat(Prefix, MarkerKey)) = Serialize(Bool(TRUE))
        /\ IsExtendedStorage(store) = Bool(TRUE)

-----------------------------------------------------------------------------
(* the backends st0 and st hold the same property under the value key of   *)
(* every slot of key but slot s                                            *)
OtherSlotsKept(st0, st, key, s) ==
    \A t \in SlotRange \ {s} :
        GetDynamicProperty(st, SlotKey(key, t)) = GetDynamicProperty(st0, SlotKey(key, t))

(* C34: remove leaves other elements' values untouched.  remove() on a     *)
(* cursor bound to slot s deletes only the value key of s; the value       *)
(* stored under every other slot of the array, the prev and next           *)
(* neighbours of s in particular, is the same before and after the call,   *)
(* for element values of every type.                                       *)
C34_RemoveFrame ==
    \A k \in ArrayKeys : \A s \in CursorSlots : \A c \in CursorsAt(k, s) :
        OtherSlotsKept(store, Remove(store, init, c).st, k, s)

-----------------------------------------------------------------------------
(* the values written through a cursor in the round trip: the falsy        *)
(* values 0, false and "", a number, and the element values                *)
WrittenValues == CursorValues \cup ElementValues \cup {Bool(FALSE), Str(EmptyStr)}

(* the cursor c is live on st: isRemoved() answers false *)
Live(st, ini, c) == IsRemoved(st, ini, c) = Returns(st, ini, Bool(FALSE))

(* the outcome o of setValue(x) on the live cursor c of st0: it returned,  *)
(* getValue() reads x, the cursor is still live, and the header and the    *)
(* other elements are as before                                            *)
WrittenBack(o, st0, c, x) ==
    /\ o.exc = "none"
    /\ GetValue(o.st, o.ini, c) = Returns(o.st, o.ini, x)
    /\ Live(o.st, o.ini, c)
    /\ HeaderOf(o.st, c.key) = HeaderOf(st0, c.key)
    /\ OtherSlotsKept(st0, o.st, c.key, c.index)

(* C35: cursor write round trip.  For a live cursor and every serializable *)
(* value x, 0, false and the empty string included, after setValue(x) the  *)
(* same cursor's getValue() returns x, isRemoved() is still false, and the *)
(* link structure and all other elements are unchanged.                    *)
C35_CursorWriteRoundTrip ==
    \A k \in ArrayKeys : \A s \in CursorSlots : \A c \in CursorsAt(k, s) :
        Live(store, init, c) =>
            \A x \in WrittenValues : WrittenBack(SetValue(store, init, c, x), store, c, x)

(* C35 for the truthy values: a number and the element values *)
TruthyWriteRoundTrip ==
    \A k \in ArrayKeys : \A s \in CursorSlots : \A c \in CursorsAt(k, s) :
        Live(store, init, c) =>
            \A x \in {w \in WrittenValues : Truthy(w)} :
                WrittenBack(SetValue(store, init, c, x), store, c, x)

-----------------------------------------------------------------------------
(* get(key) through the handle whose map is c observes the backend that    *)
(* the outcome o of a call through another handle left                     *)
Observes(o, c, prefix, key) ==
    CachedGet(o.st, c, prefix, key, TRUE, Undefined) = PSGet(o.st, prefix, key, TRUE, Undefined)

(* C36: cache coherence across handles on one backend.  When two           *)
(* CachedStorage handles for the same prefix share one backend, a write or *)
(* delete of a physical key through one handle (here a second handle, new  *)
(* CachedStorage(world), whose map is empty) is observed by every later    *)
(* get of that physical key through the other; no handle returns a value   *)
(* the backend no longer holds.                                            *)
C36_CrossHandleCoherence ==
    \A k \in PropertyKeys \cup {SubName} :
        /\ \A v \in PropertyValues :
               Observes(CachedSet(store, NoCache, Prefix, k, v), cache, Prefix, k)
        /\ Observes(CachedRemove(store, NoCache, Prefix, k), cache, Prefix, k)
        /\ Observes(CachedDrop(store, NoCache, Prefix, k), cache, Prefix, k)

=============================================================================
